---- MODULE Spec2Model ----
(***************************************************************************)
(* Pokedex API (FastAPI + SQLModel): rate limiter, authentication,         *)
(* registration and login, Pokedex CRUD and team CRUD, modelled from       *)
(* app/auth.py, app/dependencies.py and app/routers/*.py.                  *)
(*                                                                         *)
(* Time is counted in whole seconds.  Each request handler is one atomic   *)
(* action: the handlers are synchronous and each runs on its own database  *)
(* session, which is committed or discarded before the response is sent.   *)
(***************************************************************************)
EXTENDS Integers, Sequences, FiniteSets, TLC

\* ------------------------------------------------------------------ bounds
\* The clock runs from 0 to MaxTime.
MaxTime == 2
\* The limiter parameters drawn in InitRL range over 1..MaxLimit, 1..MaxWindow.
MaxLimit == 2
MaxWindow == 2
\* Calls per key recorded in the limiter specification.
MaxCalls == 4
\* Rows of the user table.
MaxUsers == 2
\* The handlers' limits, scaled down so that a limit is reached within the
\* clock's range: register 5 per 3600 s, login 10 per 60 s, Pokedex 100 per 60 s
\* in the source.
RegisterLimit == 2
RegisterWindow == 2
LoginLimit == 2
LoginWindow == 1
PokedexLimit == 1
PokedexWindow == 1
\* Rows of the Pokedex table.
MaxEntries == 2
\* Rows of the team table.
MaxTeams == 2
\* create_access_token's default expires_delta (24 hours in the source), scaled.
AccessTTL == 2
\* Register requests that are inside register_user at the same time.
MaxRequests == 2
\* Threads that are inside rate_limited at the same time.
MaxThreads == 2
\* Calls of rate_limited, over all keys, when threads interleave.
MaxRaceCalls == 3
\* Entries of one user when the statistics are computed.
MaxStatsEntries == 4
\* A capture_date counts the half days since the day before the first day:
\* day d begins at DayParts * d.
DayParts == 2

\* ------------------------------------------------------------- constants
\* The largest team create_team and update_team accept.
MaxTeamSize == 6

\* ------------------------------------------------------------------ state
VARIABLES
    now,             \* time.time(), in seconds
    limit_dict,      \* a limiter dictionary on its own: key -> timestamps
    limit,           \* its max_count
    seconds,         \* its window
    calls,           \* history: key -> the calls made, <<time, limited>>
    limited,         \* the last call: [ip, at, limited]
    threads,         \* rate_limited calls between their read and their write
    SEARCH_LIMIT,    \* routers/pokemon.py: SEARCH_LIMIT = {}
    DETAIL_LIMIT,    \* routers/pokemon.py: DETAIL_LIMIT = {}
    REGISTER_LIMIT,  \* app/auth.py: ip -> timestamps
    LOGIN_LIMIT,     \* app/auth.py: ip -> timestamps
    POKEDEX_LIMIT,   \* app/routers/pokedex.py: username -> timestamps
    users,           \* table user: the rows in id order, id = position
    entries,         \* table pokedexentry: id -> row
    teams,           \* table team: id -> row
    team_pokemon,    \* table teampokemon: team id -> pokemon ids in row order
    sessions,        \* register_user calls between their SELECT and their commit
    resp             \* the last response sent

rlVars == <<limit_dict, limit, seconds, calls, limited, threads, SEARCH_LIMIT,
           DETAIL_LIMIT>>
authVars == <<users, REGISTER_LIMIT, LOGIN_LIMIT, sessions>>
dexVars == <<entries, POKEDEX_LIMIT>>
teamVars == <<teams, team_pokemon>>
vars == <<now, limit_dict, limit, seconds, calls, limited, threads, SEARCH_LIMIT,
          DETAIL_LIMIT, REGISTER_LIMIT,
          LOGIN_LIMIT, POKEDEX_LIMIT, users, entries, teams, team_pokemon,
          sessions, resp>>

\* ------------------------------------------------------------------ values
Keys == {"10.0.0.1", "10.0.0.2"}
NoCall == [ip |-> "", at |-> 0, limited |-> FALSE]
\* A thread that is not inside rate_limited.
NoThread == [pc |-> "idle", ip |-> "", at |-> 0, timestamps |-> <<>>, alone |-> TRUE]
IPs == {"10.0.0.1"}
Usernames == {"ash", "Ash", "misty"}
NoSub == "<none>"

\* Strings the code inspects character by character are sequences of characters.
Upper == {"A", "P"}
Lower == {"a", "c", "h", "i", "k", "u", "w", "e", "x", "p"}
Digit == {"1", "2"}
Word == Upper \cup Lower \cup Digit \cup {"_"}
EmailAsh == <<"a", "@", "x", ".", "c">>
EmailAshUpper == <<"A", "@", "x", ".", "c">>
EmailNoAt == <<"a", "x", ".", "c">>
Emails == {EmailAsh, EmailAshUpper, EmailNoAt}
\* An address followed by a line feed.
EmailNewline == <<"p", "@", "x", ".", "c", "\n">>
PwStrong == <<"P", "i", "k", "a", "c", "h", "u", "1">>
PwWeak == <<"w", "e", "a", "k">>
PwNoUpper == <<"p", "i", "k", "a", "c", "h", "u", "1">>
PwNoDigit == <<"P", "i", "k", "a", "c", "h", "u", "u">>
Passwords == {PwStrong, PwWeak, PwNoUpper, PwNoDigit}

SECRET_KEY == "settings.SECRET_KEY"
\* A request slot no register_user call occupies.
NoSession == [pc |-> "idle", username |-> "", email |-> <<>>, password |-> <<>>]
NoResp == [op |-> "", status |-> 0, detail |-> "", body |-> <<>>]
Response(op, status, detail, body) ==
    [op |-> op, status |-> status, detail |-> detail, body |-> body]

\* ------------------------------------------------------------ rate limiter
\* def rate_limited(ip, limit_dict, limit, seconds) -> bool, evaluated at time t.
\* A key that is absent from the dictionary reads as the empty list
\* (limit_dict.get(ip, [])), so the dictionary is a total function here.
InWindow_inclusive(t, x, secs) == t - x <= secs

InWindow(t, x, secs) == t - x < secs

rate_limited_above(ip, d, lim, secs, t) ==
    LET timestamps == SelectSeq(d[ip], LAMBDA x : InWindow(t, x, secs))
    IN  IF Len(timestamps) > lim
        THEN [limited |-> TRUE, limit_dict |-> d]
        ELSE [limited |-> FALSE,
              limit_dict |-> [d EXCEPT ![ip] = Append(timestamps, t)]]

rate_limited(ip, d, lim, secs, t) ==
    LET timestamps == SelectSeq(d[ip], LAMBDA x : InWindow(t, x, secs))
    IN  IF Len(timestamps) >= lim
        THEN [limited |-> TRUE, limit_dict |-> d]
        ELSE [limited |-> FALSE,
              limit_dict |-> [d EXCEPT ![ip] = Append(timestamps, t)]]

\* ------------------------------------------------------------- validation
\* verify_email: re.match(r"^[\w\.-]+@[\w\.-]+\.\w+$", email).  i is the position
\* of "@", j of the dot before the last label; "$" also matches before a final
\* newline.
EmailShape(e) ==
    \E i \in 1..Len(e), j \in 1..Len(e) :
        /\ 1 < i /\ i + 1 < j /\ j < Len(e)
        /\ e[i] = "@" /\ e[j] = "."
        /\ \A m \in 1..(i - 1) : e[m] \in Word \cup {".", "-"}
        /\ \A m \in (i + 1)..(j - 1) : e[m] \in Word \cup {".", "-"}
        /\ \A m \in (j + 1)..Len(e) : e[m] \in Word

verify_email(email) ==
    \/ EmailShape(email)
    \/ /\ Len(email) > 0
       /\ email[Len(email)] = "\n"
       /\ EmailShape(SubSeq(email, 1, Len(email) - 1))

\* verify_password_strength: length, re.search("[A-Z]"), re.search("\d").
verify_password_strength(password) ==
    IF Len(password) < 8 THEN FALSE
    ELSE IF ~(\E i \in 1..Len(password) : password[i] \in Upper) THEN FALSE
    ELSE IF ~(\E i \in 1..Len(password) : password[i] \in Digit) THEN FALSE
    ELSE TRUE

\* ---------------------------------------------------------------- hashing
\* get_password_hash: the password cut to 72 characters, then bcrypt.  The digest
\* is opaque: it is compared only through verify_password.
get_password_hash(password) ==
    [scheme |-> "bcrypt",
     of |-> IF Len(password) > 72 THEN SubSeq(password, 1, 72) ELSE password]

verify_password_scheme_only(plain, hashed) ==
    hashed.scheme = "bcrypt"

verify_password(plain, hashed) ==
    hashed.scheme = "bcrypt" /\ hashed.of = plain

\* ------------------------------------------------------------------ tokens
\* create_access_token(data, expires_delta) at time t: the claims, signed with
\* settings.SECRET_KEY.
create_access_token(data, expires_delta, t) ==
    [sub |-> data.sub, user_id |-> data.user_id, exp |-> t + expires_delta,
     iat |-> t, key |-> SECRET_KEY]

\* jwt.decode(token, SECRET_KEY, algorithms): the signature must be made with the
\* key, and python-jose rejects a token whose exp is before the current second.
jwt_decode_ok(token, t) ==
    /\ token.key = SECRET_KEY
    /\ ~(token.exp < t)

\* ------------------------------------------------------------ user lookup
\* select(User).where(User.username == username) ... .first(): 0 when no row.
get_user_by_username(tbl, username) ==
    IF \E i \in 1..Len(tbl) : tbl[i].username = username
    THEN CHOOSE i \in 1..Len(tbl) :
            /\ tbl[i].username = username
            /\ \A j \in 1..(i - 1) : tbl[j].username # username
    ELSE 0

\* ----------------------------------------------------- app/routers/auth.py
\* select(User).where((User.username == u) | (User.email == e)) ... .first()
UserExists_username_only(tbl, username, email) ==
    \E i \in 1..Len(tbl) : tbl[i].username = username

UserExists(tbl, username, email) ==
    \E i \in 1..Len(tbl) : tbl[i].username = username \/ tbl[i].email = email

RegisterReq(ip, username, email, password) ==
    LET rl == rate_limited(ip, REGISTER_LIMIT, RegisterLimit, RegisterWindow, now)
    IN  /\ REGISTER_LIMIT' = rl.limit_dict
        /\ IF rl.limited
           THEN /\ resp' = Response("register", 429,
                        "Demasiados registros desde esta IP. Intenta mas tarde.", <<>>)
                /\ users' = users
           ELSE IF ~verify_email(email)
           THEN /\ resp' = Response("register", 400, "Email invalido.", <<>>)
                /\ users' = users
           ELSE IF ~verify_password_strength(password)
           THEN /\ resp' = Response("register", 400, "Contrasena insegura.", <<>>)
                /\ users' = users
           ELSE IF UserExists(users, username, email)
           THEN /\ resp' = Response("register", 400,
                        "El usuario o email ya existen.", <<>>)
                /\ users' = users
           ELSE /\ Len(users) < MaxUsers
                /\ users' = Append(users,
                        [username |-> username, email |-> email,
                         hashed_password |-> get_password_hash(password)])
                /\ resp' = Response("register", 200,
                        "Usuario registrado correctamente", <<Len(users) + 1>>)
        /\ UNCHANGED <<now, LOGIN_LIMIT, sessions, rlVars, dexVars, teamVars>>

Register ==
    \E ip \in IPs, username \in Usernames, email \in Emails, password \in Passwords :
        RegisterReq(ip, username, email, password)

LoginReq(ip, username, password) ==
    LET rl == rate_limited(ip, LOGIN_LIMIT, LoginLimit, LoginWindow, now)
        user == get_user_by_username(users, username)
    IN  /\ LOGIN_LIMIT' = rl.limit_dict
        /\ IF rl.limited
           THEN resp' = Response("login", 429,
                    "Demasiados intentos de login. Intenta mas tarde.", <<>>)
           ELSE IF user = 0 \/ ~verify_password(password, users[user].hashed_password)
           THEN resp' = Response("login", 401, "Credenciales invalidas", <<>>)
           ELSE resp' = Response("login", 200, "",
                    <<create_access_token([sub |-> users[user].username,
                                           user_id |-> user], AccessTTL, now)>>)
        /\ UNCHANGED <<now, users, REGISTER_LIMIT, sessions, rlVars, dexVars, teamVars>>

Login ==
    \E ip \in IPs, username \in Usernames, password \in Passwords :
        LoginReq(ip, username, password)

\* ------------------------------------------------- app/dependencies.py
\* get_current_user, the dependency of the Pokedex, team and Pokemon routes: the
\* outcome for a bearer token at time t against the user table.  user is the row
\* id, 0 when the dependency raised.
AuthFailed(status, detail) ==
    [ok |-> FALSE, status |-> status, detail |-> detail, user |-> 0]

get_current_user(token, tbl, t) ==
    IF ~jwt_decode_ok(token, t)
    THEN AuthFailed(401, "Token invalido o expirado")
    ELSE IF token.sub = NoSub
    THEN AuthFailed(401, "Token invalido")
    ELSE IF get_user_by_username(tbl, token.sub) = 0
    THEN AuthFailed(404, "Usuario no encontrado")
    ELSE [ok |-> TRUE, status |-> 200, detail |-> "",
          user |-> get_user_by_username(tbl, token.sub)]

\* The dependency raised: the handler's body does not run.
Rejected(op, auth) ==
    /\ resp' = Response(op, auth.status, auth.detail, <<>>)
    /\ UNCHANGED <<now, rlVars, authVars, dexVars, teamVars>>

\* ------------------------------------------- app/services/pokeapi_service.py
\* What the catalog answers to GET /pokemon/{id}: a body, an HTTP error status,
\* a timeout, or another failure.
Upstream200 == [kind |-> "ok", status |-> 200]
Upstream404 == [kind |-> "http", status |-> 404]
UpstreamTimeout == [kind |-> "timeout", status |-> 0]
UpstreamBroken == [kind |-> "other", status |-> 0]
UpstreamOutcomes == {Upstream200, Upstream404, UpstreamTimeout, UpstreamBroken}

PokemonIds == {1, 25}
CatalogName(id) == IF id = 1 THEN "bulbasaur" ELSE "pikachu"
CatalogSprite(id) == IF id = 1 THEN "sprites/1.png" ELSE "sprites/25.png"

\* bool(e.response): requests.Response.__bool__ is Response.ok, false for every
\* status raise_for_status() raises on.
ResponseTruthy(status) == status < 400

\* PokeAPIService.get_pokemon(identifier) under an upstream outcome.
HTTPErrorStatus(upstream) ==
    IF ResponseTruthy(upstream.status) THEN upstream.status ELSE 500

CatalogFailed(status, detail) ==
    [ok |-> FALSE, status |-> status, detail |-> detail, name |-> "", sprite |-> ""]

get_pokemon(identifier, upstream) ==
    IF upstream.kind = "ok"
    THEN [ok |-> TRUE, status |-> 200, detail |-> "",
          name |-> CatalogName(identifier), sprite |-> CatalogSprite(identifier)]
    ELSE IF upstream.kind = "http"
    THEN IF HTTPErrorStatus(upstream) = 404
         THEN CatalogFailed(404, "Pokemon no encontrado")
         ELSE CatalogFailed(HTTPErrorStatus(upstream), "Error en la API de PokeAPI")
    ELSE IF upstream.kind = "timeout"
    THEN CatalogFailed(504, "Tiempo de espera agotado")
    ELSE CatalogFailed(500, "Error inesperado")

\* -------------------------------------------------------------------- tables
\* A table is a function from the ids of its rows to the rows.  SQLite gives a
\* new row the id max(id) + 1, or 1 in an empty table.
NoRows == [i \in {} |-> 0]

MaxId(tbl) == CHOOSE i \in DOMAIN tbl : \A j \in DOMAIN tbl : j <= i

NextId(tbl) == IF DOMAIN tbl = {} THEN 1 ELSE MaxId(tbl) + 1

Insert(tbl, id, row) ==
    [i \in DOMAIN tbl \cup {id} |-> IF i = id THEN row ELSE tbl[i]]

Remove_none(tbl, id) == tbl

Remove(tbl, id) == [i \in DOMAIN tbl \ {id} |-> tbl[i]]

\* ---------------------------------------------------- app/routers/pokedex.py
\* Optional values: None is written NoneStr for strings and NoDate for dates
\* (which are day numbers).
NoneStr == "<None>"
NoDate == 0

TooMany == "Demasiadas peticiones, intentalo mas tarde"

\* for key, value in update_data.model_dump(exclude_unset=True).items():
\*     setattr(entry, key, value)
\* update_data.set holds the fields the request body sets, update_data.val
\* their values.
ApplyUpdate_all_fields(entry, update_data) ==
    [entry EXCEPT
        !.is_captured = update_data.val.is_captured,
        !.capture_date = update_data.val.capture_date,
        !.nickname = update_data.val.nickname,
        !.notes = update_data.val.notes,
        !.favorite = update_data.val.favorite]

ApplyUpdate(entry, update_data) ==
    [entry EXCEPT
        !.is_captured = IF "is_captured" \in update_data.set
                        THEN update_data.val.is_captured ELSE @,
        !.capture_date = IF "capture_date" \in update_data.set
                         THEN update_data.val.capture_date ELSE @,
        !.nickname = IF "nickname" \in update_data.set
                     THEN update_data.val.nickname ELSE @,
        !.notes = IF "notes" \in update_data.set
                  THEN update_data.val.notes ELSE @,
        !.favorite = IF "favorite" \in update_data.set
                     THEN update_data.val.favorite ELSE @]

\* entry.owner_id != current_user.id
NotOwner_never(entry, user) == FALSE

NotOwner(entry, user) == entry.owner_id # user

\* except HTTPException as e:
\*     raise HTTPException(status_code=e.status_code, detail=e.detail)
Reraise_as_500(e) == [status |-> 500, detail |-> "Internal Server Error"]

Reraise(e) == [status |-> e.status, detail |-> e.detail]

\* POST /api/v1/pokedex/
AddReq(token, entry_data, upstream) ==
    LET auth == get_current_user(token, users, now)
    IN  IF ~auth.ok THEN Rejected("add", auth)
        ELSE
        LET rl == rate_limited(users[auth.user].username, POKEDEX_LIMIT,
                               PokedexLimit, PokedexWindow, now)
            pokemon_data == get_pokemon(entry_data.pokemon_id, upstream)
            id == NextId(entries)
        IN  /\ POKEDEX_LIMIT' = rl.limit_dict
            /\ IF rl.limited
               THEN /\ resp' = Response("add", 429, TooMany, <<>>)
                    /\ entries' = entries
               ELSE IF ~pokemon_data.ok
               THEN /\ resp' = Response("add", Reraise(pokemon_data).status,
                                        Reraise(pokemon_data).detail, <<>>)
                    /\ entries' = entries
               ELSE /\ id <= MaxEntries
                    /\ entries' = Insert(entries, id,
                            [owner_id |-> auth.user,
                             pokemon_id |-> entry_data.pokemon_id,
                             pokemon_name |-> pokemon_data.name,
                             pokemon_sprite |-> pokemon_data.sprite,
                             is_captured |-> entry_data.is_captured,
                             capture_date |-> NoDate,
                             nickname |-> entry_data.nickname,
                             notes |-> NoneStr,
                             favorite |-> FALSE])
                    /\ resp' = Response("add", 201, "", <<id>>)
            /\ UNCHANGED <<now, rlVars, authVars, teamVars>>

\* PATCH /api/v1/pokedex/{entry_id}
UpdateReq(token, entry_id, update_data) ==
    LET auth == get_current_user(token, users, now)
    IN  IF ~auth.ok THEN Rejected("update", auth)
        ELSE
        LET rl == rate_limited(users[auth.user].username, POKEDEX_LIMIT,
                               PokedexLimit, PokedexWindow, now)
        IN  /\ POKEDEX_LIMIT' = rl.limit_dict
            /\ IF rl.limited
               THEN /\ resp' = Response("update", 429, TooMany, <<>>)
                    /\ entries' = entries
               ELSE IF entry_id \notin DOMAIN entries
               THEN /\ resp' = Response("update", 404, "Entrada no encontrada", <<>>)
                    /\ entries' = entries
               ELSE IF NotOwner(entries[entry_id], auth.user)
               THEN /\ resp' = Response("update", 403,
                                        "No puedes modificar esta entrada", <<>>)
                    /\ entries' = entries
               ELSE LET entry == ApplyUpdate(entries[entry_id], update_data)
                    IN  /\ entries' = [entries EXCEPT ![entry_id] = entry]
                        /\ resp' = Response("update", 200, "",
                                <<[is_captured |-> entry.is_captured,
                                   capture_date |-> entry.capture_date,
                                   nickname |-> entry.nickname,
                                   favorite |-> entry.favorite]>>)
            /\ UNCHANGED <<now, rlVars, authVars, teamVars>>

\* DELETE /api/v1/pokedex/{entry_id}
DeleteReq(token, entry_id) ==
    LET auth == get_current_user(token, users, now)
    IN  IF ~auth.ok THEN Rejected("delete", auth)
        ELSE
        LET rl == rate_limited(users[auth.user].username, POKEDEX_LIMIT,
                               PokedexLimit, PokedexWindow, now)
        IN  /\ POKEDEX_LIMIT' = rl.limit_dict
            /\ IF rl.limited
               THEN /\ resp' = Response("delete", 429, TooMany, <<>>)
                    /\ entries' = entries
               ELSE IF entry_id \notin DOMAIN entries
               THEN /\ resp' = Response("delete", 404, "Entrada no encontrada", <<>>)
                    /\ entries' = entries
               ELSE IF NotOwner(entries[entry_id], auth.user)
               THEN /\ resp' = Response("delete", 403,
                                        "No puedes eliminar esta entrada", <<>>)
                    /\ entries' = entries
               ELSE /\ entries' = Remove(entries, entry_id)
                    /\ resp' = Response("delete", 204,
                        "Se ha eliminado correctamente el Pokemon de la Pokedex", <<>>)
            /\ UNCHANGED <<now, rlVars, authVars, teamVars>>

\* GET /api/v1/pokedex/.  An Optional[bool] query parameter is the set of the
\* values it admits: {} when it is absent (None), {TRUE} or {FALSE}.
NameRank(name) == IF name = "bulbasaur" THEN 1 ELSE 2

\* The value ORDER BY compares; SQLite sorts NULL (NoDate) before every date.
SortKey(entry, sort) ==
    IF sort = "pokemon_id" THEN entry.pokemon_id
    ELSE IF sort = "pokemon_name" THEN NameRank(entry.pokemon_name)
    ELSE entry.capture_date

\* select(PokedexEntry).where(owner_id == current_user.id), then the filters.
Selected_any_owner(tbl, owner, captured, favorite) ==
    {i \in DOMAIN tbl :
        /\ captured = {} \/ tbl[i].is_captured \in captured
        /\ favorite = {} \/ tbl[i].favorite \in favorite}

Selected(tbl, owner, captured, favorite) ==
    {i \in DOMAIN tbl :
        /\ tbl[i].owner_id = owner
        /\ captured = {} \/ tbl[i].is_captured \in captured
        /\ favorite = {} \/ tbl[i].favorite \in favorite}

\* .order_by(sort_column): the ids of S in an order the database may return,
\* rows with equal keys in any order.
Ordered(tbl, S, sort, order) ==
    {s \in [1..Cardinality(S) -> S] :
        /\ \A i, j \in 1..Cardinality(S) : i # j => s[i] # s[j]
        /\ \A i \in 1..(Cardinality(S) - 1) :
            IF order = "desc"
            THEN SortKey(tbl[s[i]], sort) >= SortKey(tbl[s[i + 1]], sort)
            ELSE SortKey(tbl[s[i]], sort) <= SortKey(tbl[s[i + 1]], sort)}

\* .offset(offset).limit(limit)
Page(s, lim, offset) ==
    SubSeq(s, offset + 1, IF offset + lim < Len(s) THEN offset + lim ELSE Len(s))

\* The id sequences db.exec(query).all() may return.
ListRows(tbl, owner, q) ==
    {Page(s, q.limit, q.offset) :
        s \in Ordered(tbl, Selected(tbl, owner, q.captured, q.favorite),
                      q.sort, q.order)}

ListReq(token, q, rows) ==
    LET auth == get_current_user(token, users, now)
    IN  IF ~auth.ok THEN Rejected("list", auth)
        ELSE
        LET rl == rate_limited(users[auth.user].username, POKEDEX_LIMIT,
                               PokedexLimit, PokedexWindow, now)
        IN  /\ POKEDEX_LIMIT' = rl.limit_dict
            /\ IF rl.limited
               THEN resp' = Response("list", 429, TooMany, <<>>)
               ELSE /\ rows \in ListRows(entries, auth.user, q)
                    /\ resp' = Response("list", 200, "",
                            [i \in 1..Len(rows) |->
                                [entry_id |-> rows[i],
                                 pokemon_id |-> entries[rows[i]].pokemon_id,
                                 nickname |-> entries[rows[i]].nickname,
                                 is_captured |-> entries[rows[i]].is_captured]])
            /\ UNCHANGED <<now, entries, rlVars, authVars, teamVars>>

\* ------------------------------------------------------ app/routers/teams.py
\* A team row is [owner_id, name, description]; team_pokemon maps the id of a
\* team to the pokemon_id of its membership rows, in the order of insertion (a
\* membership row has a key of its own, so a team may hold an id twice).
\* TeamUpdate.pokemon_ids = None is written NoIds.
NoIds == <<-1>>

\* len(pokemon_ids) > 6
TooManyMembers_above_seven(pokemon_ids) == Len(pokemon_ids) > MaxTeamSize + 1

TooManyMembers(pokemon_ids) == Len(pokemon_ids) > MaxTeamSize

\* select(PokedexEntry.pokemon_id).where(PokedexEntry.owner_id == current_user.id)
UserPokemonIds(tbl, owner) == {tbl[i].pokemon_id : i \in {j \in DOMAIN tbl : tbl[j].owner_id = owner}}

\* missing = [pid for pid in team_data.pokemon_ids if pid not in user_pokemon_ids]
Missing_first_only(pokemon_ids, user_pokemon_ids) ==
    LET all == SelectSeq(pokemon_ids, LAMBDA pid : pid \notin user_pokemon_ids)
    IN  IF all = <<>> THEN <<>> ELSE <<all[1]>>

Missing(pokemon_ids, user_pokemon_ids) ==
    SelectSeq(pokemon_ids, LAMBDA pid : pid \notin user_pokemon_ids)

\* delete(TeamPokemon).where(TeamPokemon.team_id == team.id), then one
\* TeamPokemon(team_id, pokemon_id) for each pid of the request.
ReplaceMembers_append(old, pokemon_ids) == old \o pokemon_ids

ReplaceMembers(old, pokemon_ids) == pokemon_ids

\* if team_update.name: -- None and the empty string are falsy
Truthy(str) == str # NoneStr /\ str # ""

\* POST /api/v1/teams/
CreateTeamReq(token, team_data) ==
    LET auth == get_current_user(token, users, now)
    IN  IF ~auth.ok THEN Rejected("create_team", auth)
        ELSE
        LET missing == Missing(team_data.pokemon_ids, UserPokemonIds(entries, auth.user))
            id == NextId(teams)
        IN  /\ IF TooManyMembers(team_data.pokemon_ids)
               THEN /\ resp' = Response("create_team", 400,
                            "Un equipo no puede tener mas de 6 Pokemon.", <<>>)
                    /\ UNCHANGED teamVars
               ELSE IF missing # <<>>
               THEN /\ resp' = Response("create_team", 400,
                            "Los siguientes Pokemon no estan en tu Pokedex", missing)
                    /\ UNCHANGED teamVars
               ELSE /\ id <= MaxTeams
                    /\ teams' = Insert(teams, id,
                            [owner_id |-> auth.user, name |-> team_data.name,
                             description |-> team_data.description])
                    /\ team_pokemon' = Insert(team_pokemon, id, team_data.pokemon_ids)
                    /\ resp' = Response("create_team", 201,
                            "Equipo creado correctamente", <<id, team_data.name>>)
            /\ UNCHANGED <<now, rlVars, authVars, dexVars>>

\* GET /api/v1/teams/: the caller's teams, in an order the database may return.
Orders(S) ==
    {s \in [1..Cardinality(S) -> S] :
        \A i, j \in 1..Cardinality(S) : i # j => s[i] # s[j]}

ListTeamsReq(token, order) ==
    LET auth == get_current_user(token, users, now)
    IN  IF ~auth.ok THEN Rejected("list_teams", auth)
        ELSE /\ order \in Orders({i \in DOMAIN teams :
                                            teams[i].owner_id = auth.user})
             /\ resp' = Response("list_teams", 200, "",
                    [i \in 1..Len(order) |->
                        [id |-> order[i], name |-> teams[order[i]].name,
                         description |-> teams[order[i]].description,
                         pokemon_ids |-> team_pokemon[order[i]]]])
             /\ UNCHANGED <<now, rlVars, authVars, dexVars, teamVars>>

\* not team or team.owner_id != current_user.id
TeamNotFound_absent_only(tbl, team_id, user) == team_id \notin DOMAIN tbl

TeamNotFound(tbl, team_id, user) ==
    team_id \notin DOMAIN tbl \/ tbl[team_id].owner_id # user

\* app/database.py, get_session: the session is closed when the request ends; a
\* handler that raised before db.commit() leaves the stored rows as they were,
\* whatever it had assigned to the session's objects.
Discarded_flushed(stored, pending) == pending

Discarded(stored, pending) == stored

\* PUT /api/v1/teams/{team_id}.  team.name and team.description are assigned on
\* the session's object before pokemon_ids is validated; a request that is
\* rejected never reaches db.commit(), and the session discards the assignments
\* when it is closed.
UpdateTeamReq(token, team_id, team_update) ==
    LET auth == get_current_user(token, users, now)
    IN  IF ~auth.ok THEN Rejected("update_team", auth)
        ELSE
        /\ IF TeamNotFound(teams, team_id, auth.user)
           THEN /\ resp' = Response("update_team", 404,
                        "Team not found or not owned by user", <<>>)
                /\ UNCHANGED teamVars
           ELSE
           LET named == IF Truthy(team_update.name)
                        THEN [teams[team_id] EXCEPT !.name = team_update.name]
                        ELSE teams[team_id]
               team == IF Truthy(team_update.description)
                       THEN [named EXCEPT !.description = team_update.description]
                       ELSE named
               missing == Missing(team_update.pokemon_ids,
                                  UserPokemonIds(entries, auth.user))
           IN  IF team_update.pokemon_ids = NoIds
               THEN /\ teams' = [teams EXCEPT ![team_id] = team]
                    /\ team_pokemon' = team_pokemon
                    /\ resp' = Response("update_team", 200, "",
                            <<[name |-> team.name, description |-> team.description,
                               pokemon_ids |-> team_pokemon[team_id]]>>)
               ELSE IF TooManyMembers(team_update.pokemon_ids)
               THEN /\ resp' = Response("update_team", 400,
                            "Team cannot have more than 6 Pokemon", <<>>)
                    /\ teams' = Discarded(teams, [teams EXCEPT ![team_id] = team])
                    /\ team_pokemon' = team_pokemon
               ELSE IF missing # <<>>
               THEN /\ resp' = Response("update_team", 400,
                            "User does not own Pokemon", <<missing[1]>>)
                    /\ teams' = Discarded(teams, [teams EXCEPT ![team_id] = team])
                    /\ team_pokemon' = team_pokemon
               ELSE /\ teams' = [teams EXCEPT ![team_id] = team]
                    /\ team_pokemon' = [team_pokemon EXCEPT
                            ![team_id] = ReplaceMembers(@, team_update.pokemon_ids)]
                    /\ resp' = Response("update_team", 200, "",
                            <<[name |-> team.name, description |-> team.description,
                               pokemon_ids |-> ReplaceMembers(team_pokemon[team_id],
                                                   team_update.pokemon_ids)]>>)
        /\ UNCHANGED <<now, rlVars, authVars, dexVars>>

\* ------------------------------------------------------------------ clock
Tick ==
    /\ now < MaxTime
    /\ now' = now + 1
    /\ UNCHANGED <<rlVars, authVars, dexVars, teamVars, resp>>

\* ----------------------------------------------------------- initial parts
RLIdle ==
    /\ limit_dict = [k \in Keys |-> <<>>]
    /\ limit = 0
    /\ seconds = 0
    /\ calls = [k \in Keys |-> <<>>]
    /\ limited = NoCall
    /\ threads = [p \in 1..MaxThreads |-> NoThread]

LimitersEmpty ==
    /\ REGISTER_LIMIT = [ip \in IPs |-> <<>>]
    /\ LOGIN_LIMIT = [ip \in IPs |-> <<>>]
    /\ SEARCH_LIMIT = [u \in Usernames |-> <<>>]
    /\ DETAIL_LIMIT = [u \in Usernames |-> <<>>]
    /\ sessions = [r \in 1..MaxRequests |-> NoSession]

AuthEmpty ==
    /\ users = <<>>
    /\ LimitersEmpty

DexEmpty ==
    /\ entries = NoRows
    /\ POKEDEX_LIMIT = [u \in Usernames |-> <<>>]

TeamEmpty ==
    /\ teams = NoRows
    /\ team_pokemon = NoRows

\* ------------------------------------------ the limiter on its own (SpecRL)
InitRL ==
    /\ now = 0
    /\ limit_dict = [k \in Keys |-> <<>>]
    /\ limit \in 1..MaxLimit
    /\ seconds \in 1..MaxWindow
    /\ calls = [k \in Keys |-> <<>>]
    /\ limited = NoCall
    /\ threads = [p \in 1..MaxThreads |-> NoThread]
    /\ AuthEmpty /\ DexEmpty /\ TeamEmpty
    /\ resp = NoResp

RLCall ==
    \E ip \in Keys :
        /\ Len(calls[ip]) < MaxCalls
        /\ LET r == rate_limited(ip, limit_dict, limit, seconds, now)
           IN  /\ limit_dict' = r.limit_dict
               /\ limited' = [ip |-> ip, at |-> now, limited |-> r.limited]
               /\ calls' = [calls EXCEPT ![ip] = Append(@, <<now, r.limited>>)]
        /\ UNCHANGED <<now, limit, seconds, threads, SEARCH_LIMIT, DETAIL_LIMIT,
                       authVars, dexVars, teamVars, resp>>

NextRL == Tick \/ RLCall

SpecRL == InitRL /\ [][NextRL]_vars

\* ------------------------------------- registration and login (SpecAuth)
InitAuth ==
    /\ now = 0
    /\ RLIdle /\ AuthEmpty /\ DexEmpty /\ TeamEmpty
    /\ resp = NoResp

NextAuth == Tick \/ Register \/ Login

SpecAuth == InitAuth /\ [][NextAuth]_vars

\* ------------------------------------------------ the Pokedex (SpecDex)
\* Two registered users, as Register leaves them; the limiter dictionaries are
\* empty, as they are when the process starts.
UserAsh ==
    [username |-> "ash", email |-> EmailAsh,
     hashed_password |-> get_password_hash(PwStrong)]

UserMisty ==
    [username |-> "misty", email |-> EmailAshUpper,
     hashed_password |-> get_password_hash(PwStrong)]

SeedUsers == <<UserAsh, UserMisty>>

Token(sub, exp, key) ==
    [sub |-> sub, user_id |-> 0, exp |-> exp, iat |-> 0, key |-> key]

\* The tokens the requests carry: one for each user, one whose subject has no
\* row, one without subject, one that expires after second 0, one signed with
\* another key.
RequestTokens ==
    {Token("ash", MaxTime, SECRET_KEY), Token("misty", MaxTime, SECRET_KEY),
     Token("Ash", MaxTime, SECRET_KEY), Token(NoSub, MaxTime, SECRET_KEY),
     Token("ash", 0, SECRET_KEY), Token("ash", MaxTime, "another key")}

\* Of these, the tokens that pass jwt.decode and carry a subject.
UserTokens ==
    {Token("ash", MaxTime, SECRET_KEY), Token("misty", MaxTime, SECRET_KEY),
     Token("Ash", MaxTime, SECRET_KEY)}

EntryCreates == [pokemon_id : {25}, nickname : {NoneStr}, is_captured : BOOLEAN]

Unset ==
    [is_captured |-> FALSE, capture_date |-> NoDate, nickname |-> NoneStr,
     notes |-> NoneStr, favorite |-> FALSE]

UpdateBodies ==
    {[set |-> {}, val |-> Unset],
     [set |-> {"nickname", "favorite"},
      val |-> [Unset EXCEPT !.nickname = "Sparky", !.favorite = TRUE]]}

EntryIds == 1..(MaxEntries + 1)

Queries(limits, offsets) ==
    [captured : {{}, {TRUE}, {FALSE}}, favorite : {{}, {TRUE}, {FALSE}},
     sort : {"pokemon_id", "pokemon_name", "capture_date"},
     order : {"asc", "desc"}, limit : limits, offset : offsets]

DefaultQuery ==
    [captured |-> {}, favorite |-> {}, sort |-> "pokemon_id", order |-> "asc",
     limit |-> 20, offset |-> 0]

ListQueries ==
    {DefaultQuery, [DefaultQuery EXCEPT !.captured = {TRUE}],
     [DefaultQuery EXCEPT !.order = "desc", !.limit = 1]}

AddOutcomes == {Upstream200, Upstream404, UpstreamTimeout}

Add ==
    \E token \in RequestTokens, entry_data \in EntryCreates,
       upstream \in AddOutcomes :
        AddReq(token, entry_data, upstream)

List ==
    \E token \in RequestTokens, q \in ListQueries :
        \E rows \in ListRows(entries, get_current_user(token, users, now).user, q) :
            ListReq(token, q, rows)

Update ==
    \E token \in RequestTokens, entry_id \in EntryIds, update_data \in UpdateBodies :
        UpdateReq(token, entry_id, update_data)

Delete ==
    \E token \in RequestTokens, entry_id \in EntryIds :
        DeleteReq(token, entry_id)

InitDex ==
    /\ now = 0
    /\ RLIdle
    /\ users = SeedUsers
    /\ LimitersEmpty
    /\ DexEmpty
    /\ TeamEmpty
    /\ resp = NoResp

NextDex == Tick \/ Add \/ List \/ Update \/ Delete

SpecDex == InitDex /\ [][NextDex]_vars

\* ------------------------------------------------ listing (SpecList)
\* The Pokedex tables Add and Update leave behind, rows numbered from 1, and on
\* them every combination of the query parameters of GET /api/v1/pokedex/.
SeedRows ==
    {[owner_id |-> o, pokemon_id |-> p, pokemon_name |-> CatalogName(p),
      pokemon_sprite |-> CatalogSprite(p), is_captured |-> c,
      capture_date |-> NoDate, nickname |-> NoneStr, notes |-> NoneStr,
      favorite |-> f] :
        o \in 1..Len(SeedUsers), p \in PokemonIds, c \in BOOLEAN, f \in BOOLEAN}

SeedTables == UNION {[1..n -> SeedRows] : n \in 0..MaxEntries}

ListAny ==
    \E token \in UserTokens, q \in Queries({1, 20}, {0, 1}) :
        \E rows \in ListRows(entries, get_current_user(token, users, now).user, q) :
            ListReq(token, q, rows)

InitList ==
    /\ now = 0
    /\ RLIdle
    /\ users = SeedUsers
    /\ LimitersEmpty
    /\ entries \in SeedTables
    /\ POKEDEX_LIMIT = [u \in Usernames |-> <<>>]
    /\ TeamEmpty
    /\ resp = NoResp

NextList == ListAny

SpecList == InitList /\ [][NextList]_vars

\* ------------------------------------------------------ teams (SpecTeams)
\* Pokedex tables Add leaves behind.
Caught(owner, pokemon_id) ==
    [owner_id |-> owner, pokemon_id |-> pokemon_id,
     pokemon_name |-> CatalogName(pokemon_id),
     pokemon_sprite |-> CatalogSprite(pokemon_id), is_captured |-> FALSE,
     capture_date |-> NoDate, nickname |-> NoneStr, notes |-> NoneStr,
     favorite |-> FALSE]

TeamSeedTables ==
    {NoRows,
     [i \in {1} |-> Caught(1, 25)],
     [i \in {1, 2} |-> IF i = 1 THEN Caught(1, 1) ELSE Caught(1, 25)],
     [i \in {1, 2} |-> IF i = 1 THEN Caught(1, 25) ELSE Caught(2, 1)]}

\* Member lists: short ones, of ids that are in a Pokedex or in none (998, 999),
\* and lists of 6 and of 7 ids.
PokemonIdLists ==
    {<<>>, <<25>>, <<1>>, <<25, 1>>, <<999>>, <<999, 25, 998>>,
     [i \in 1..MaxTeamSize |-> 25], [i \in 1..(MaxTeamSize + 1) |-> 25]}

TeamCreates == [name : {"Kanto"}, description : {NoneStr}, pokemon_ids : PokemonIdLists]

TeamUpdates ==
    [name : {NoneStr}, description : {NoneStr}, pokemon_ids : PokemonIdLists]
        \cup {[name |-> "Johto", description |-> "dream team", pokemon_ids |-> NoIds],
              [name |-> "", description |-> "", pokemon_ids |-> NoIds],
              [name |-> "Johto", description |-> NoneStr, pokemon_ids |-> <<999>>],
              [name |-> "Johto", description |-> NoneStr,
               pokemon_ids |-> [i \in 1..(MaxTeamSize + 1) |-> 25]]}

TeamIds == 1..(MaxTeams + 1)

CreateTeam ==
    \E token \in UserTokens, team_data \in TeamCreates :
        CreateTeamReq(token, team_data)

ListTeams ==
    \E token \in UserTokens :
        \E order \in Orders({i \in DOMAIN teams : teams[i].owner_id =
                                get_current_user(token, users, now).user}) :
            ListTeamsReq(token, order)

UpdateTeam ==
    \E token \in UserTokens, team_id \in TeamIds, team_update \in TeamUpdates :
        UpdateTeamReq(token, team_id, team_update)

InitTeams ==
    /\ now = 0
    /\ RLIdle
    /\ users = SeedUsers
    /\ LimitersEmpty
    /\ entries \in TeamSeedTables
    /\ POKEDEX_LIMIT = [u \in Usernames |-> <<>>]
    /\ TeamEmpty
    /\ resp = NoResp

NextTeams == CreateTeam \/ ListTeams \/ UpdateTeam

SpecTeams == InitTeams /\ [][NextTeams]_vars

\* ------------------------------------- ownership of rows (SpecOwn)
\* The routes that change a stored Pokedex entry or a stored team, on the
\* seeded Pokedex tables and two teams CreateTeam leaves behind: one of each
\* user, the first with a member.
OwnTeams ==
    [i \in {1, 2} |->
        [owner_id |-> i, name |-> "Kanto", description |-> NoneStr]]

OwnTeamPokemon == [i \in {1, 2} |-> IF i = 1 THEN <<25>> ELSE <<>>]

InitOwn ==
    /\ now = 0
    /\ RLIdle
    /\ users = SeedUsers
    /\ LimitersEmpty
    /\ entries \in TeamSeedTables
    /\ POKEDEX_LIMIT = [u \in Usernames |-> <<>>]
    /\ teams = OwnTeams
    /\ team_pokemon = OwnTeamPokemon
    /\ resp = NoResp

\* A new name with the members kept, and new members with the name kept.
OwnTeamUpdates ==
    {[name |-> "Johto", description |-> NoneStr, pokemon_ids |-> NoIds],
     [name |-> NoneStr, description |-> NoneStr, pokemon_ids |-> <<1>>]}

UpdateTeamOwn ==
    \E token \in UserTokens, team_id \in DOMAIN teams,
       team_update \in OwnTeamUpdates :
        UpdateTeamReq(token, team_id, team_update)

UpdateOwn ==
    \E token \in UserTokens, entry_id \in DOMAIN entries,
       update_data \in UpdateBodies :
        UpdateReq(token, entry_id, update_data)

DeleteOwn ==
    \E token \in UserTokens, entry_id \in DOMAIN entries :
        DeleteReq(token, entry_id)

NextOwn == Tick \/ UpdateTeamOwn \/ UpdateOwn \/ DeleteOwn

SpecOwn == InitOwn /\ [][NextOwn]_vars

\* ------------------------------------- partial update (SpecUpdate)
\* One entry of each user, the first with every optional field set, and
\* request bodies that set any subset of the fields of PokedexEntryUpdate, or
\* set all of them to null.
UpdateFields == {"is_captured", "capture_date", "nickname", "notes", "favorite"}

UpdateSeed ==
    [i \in {1, 2} |->
        IF i = 1
        THEN [Caught(1, 25) EXCEPT !.is_captured = TRUE, !.capture_date = 5,
                                   !.nickname = "Sparky", !.notes = "memo",
                                   !.favorite = TRUE]
        ELSE Caught(2, 1)]

PartialBodies ==
    {[set |-> S,
      val |-> [is_captured |-> TRUE, capture_date |-> 7, nickname |-> "Bolt",
               notes |-> "shiny", favorite |-> TRUE]] : S \in SUBSET UpdateFields}
        \cup {[set |-> UpdateFields, val |-> Unset]}

UpdatePartial ==
    \E token \in UserTokens, entry_id \in EntryIds, update_data \in PartialBodies :
        UpdateReq(token, entry_id, update_data)

InitUpdate ==
    /\ now = 0
    /\ RLIdle
    /\ users = SeedUsers
    /\ LimitersEmpty
    /\ entries = UpdateSeed
    /\ POKEDEX_LIMIT = [u \in Usernames |-> <<>>]
    /\ TeamEmpty
    /\ resp = NoResp

SpecUpdate == InitUpdate /\ [][UpdatePartial]_vars

\* ------------------------------------------- tokens (SpecTokens)
\* app/auth.py: create_refresh_token(data, expires_delta) at time t.
create_refresh_token_own_key(data, expires_delta, t) ==
    [sub |-> data.sub, user_id |-> data.user_id, exp |-> t + expires_delta,
     iat |-> t, key |-> "refresh key"]

create_refresh_token(data, expires_delta, t) ==
    [sub |-> data.sub, user_id |-> data.user_id, exp |-> t + expires_delta,
     iat |-> t, key |-> SECRET_KEY]

\* app/auth.py: async def verify_refresh_token(token), the body of the coroutine.
verify_refresh_token(token, t) ==
    IF ~jwt_decode_ok(token, t) \/ token.sub = NoSub \/ token.sub = ""
    THEN AuthFailed(401, "Refresh token invalido")
    ELSE [ok |-> TRUE, status |-> 200, detail |-> "", user |-> 0]

\* Calling an async function without await returns the coroutine object; its
\* body has not run.
Coroutine(result) == [awaited |-> FALSE, result |-> result]

\* POST /api/v1/auth/refresh.  payload is the coroutine verify_refresh_token
\* returns, and payload.get("sub") raises AttributeError, which the application
\* answers with 500.
RefreshReq(token) ==
    LET payload == Coroutine(verify_refresh_token(token, now))
        user == get_user_by_username(users, token.sub)
    IN  /\ resp' =
            IF ~payload.awaited
            THEN Response("refresh", 500, "Internal Server Error", <<>>)
            ELSE IF ~payload.result.ok
            THEN Response("refresh", payload.result.status,
                          payload.result.detail, <<>>)
            ELSE IF user = 0
            THEN Response("refresh", 401, "Usuario no encontrado", <<>>)
            ELSE Response("refresh", 200, "",
                    <<create_access_token([sub |-> users[user].username,
                                           user_id |-> user], AccessTTL, now)>>)
        /\ UNCHANGED <<now, rlVars, authVars, dexVars, teamVars>>

\* app/auth.py: get_current_user, the dependency of GET /api/v1/auth/me.
auth_get_current_user(token, tbl, t) ==
    IF \/ ~jwt_decode_ok(token, t)
       \/ token.sub = NoSub \/ token.sub = ""
       \/ get_user_by_username(tbl, token.sub) = 0
    THEN AuthFailed(401, "Credenciales invalidas")
    ELSE [ok |-> TRUE, status |-> 200, detail |-> "",
          user |-> get_user_by_username(tbl, token.sub)]

\* GET /api/v1/auth/me
MeReq(token) ==
    LET auth == auth_get_current_user(token, users, now)
    IN  /\ resp' =
            IF auth.ok
            THEN Response("me", 200, "",
                    <<users[auth.user].username, users[auth.user].email>>)
            ELSE Response("me", auth.status, auth.detail, <<>>)
        /\ UNCHANGED <<now, rlVars, authVars, dexVars, teamVars>>

\* Tokens issued at every second, with a lifetime of 0 seconds and of 1 second:
\* access tokens of ash, refresh tokens of misty and of a subject without row.
TokenTTLs == {0, 1}

AccessTokens ==
    {create_access_token([sub |-> "ash", user_id |-> 1], ttl, t) :
        ttl \in TokenTTLs, t \in 0..MaxTime}

RefreshData == {[sub |-> "misty", user_id |-> 2], [sub |-> "Ash", user_id |-> 3]}

RefreshTokens ==
    {create_refresh_token(data, ttl, t) :
        data \in RefreshData, ttl \in TokenTTLs, t \in 0..MaxTime}

\* A token is presented at its issue time or later.
Presented == {token \in AccessTokens \cup RefreshTokens : token.iat <= now}

NextTokens ==
    \/ Tick
    \/ \E token \in Presented : ListReq(token, DefaultQuery, <<>>)
    \/ \E token \in Presented : MeReq(token)
    \/ \E token \in Presented : RefreshReq(token)

SpecTokens == InitDex /\ [][NextTokens]_vars

\* ------------------------------------- registration (SpecRegister)
\* Register on an empty user table, with the addresses of SpecAuth and one that
\* ends in a line feed.
NextRegister ==
    \/ Tick
    \/ \E ip \in IPs, username \in Usernames, email \in Emails \cup {EmailNewline},
          password \in Passwords :
            RegisterReq(ip, username, email, password)

SpecRegister == InitAuth /\ [][NextRegister]_vars

\* ------------------------------------- concurrent registration (SpecRace)
\* register_user runs in a worker thread with a session of its own, so a second
\* call can run its SELECT before the first call commits.
\* register_user up to the existence check: a call that fails a check answers
\* at once, one that passes all of them goes on to the INSERT.
RegisterCheck(r, ip, username, email, password) ==
    LET rl == rate_limited(ip, REGISTER_LIMIT, RegisterLimit, RegisterWindow, now)
    IN  /\ sessions[r].pc = "idle"
        /\ REGISTER_LIMIT' = rl.limit_dict
        /\ IF rl.limited
           THEN /\ resp' = Response("register", 429,
                        "Demasiados registros desde esta IP. Intenta mas tarde.", <<>>)
                /\ sessions' = sessions
           ELSE IF ~verify_email(email)
           THEN /\ resp' = Response("register", 400, "Email invalido.", <<>>)
                /\ sessions' = sessions
           ELSE IF ~verify_password_strength(password)
           THEN /\ resp' = Response("register", 400, "Contrasena insegura.", <<>>)
                /\ sessions' = sessions
           ELSE IF UserExists(users, username, email)
           THEN /\ resp' = Response("register", 400,
                        "El usuario o email ya existen.", <<>>)
                /\ sessions' = sessions
           ELSE /\ sessions' = [sessions EXCEPT ![r] =
                        [pc |-> "checked", username |-> username,
                         email |-> email, password |-> password]]
                /\ resp' = resp
        /\ UNCHANGED <<now, users, LOGIN_LIMIT, rlVars, dexVars, teamVars>>

\* session.add(new_user); session.commit(): username and email are unique
\* columns, and the IntegrityError of a second row with the same username or
\* email is not caught in register_user, so the application answers 500.
RegisterCommit(r) ==
    /\ sessions[r].pc = "checked"
    /\ IF UserExists(users, sessions[r].username, sessions[r].email)
       THEN /\ resp' = Response("register", 500, "Internal Server Error", <<>>)
            /\ users' = users
       ELSE /\ Len(users) < MaxUsers
            /\ users' = Append(users,
                    [username |-> sessions[r].username, email |-> sessions[r].email,
                     hashed_password |-> get_password_hash(sessions[r].password)])
            /\ resp' = Response("register", 200,
                    "Usuario registrado correctamente", <<Len(users) + 1>>)
    /\ sessions' = [sessions EXCEPT ![r] = NoSession]
    /\ UNCHANGED <<now, REGISTER_LIMIT, LOGIN_LIMIT, rlVars, dexVars, teamVars>>

NextRace ==
    \/ Tick
    \/ \E r \in 1..MaxRequests, ip \in IPs, username \in Usernames,
          email \in Emails, password \in Passwords :
            RegisterCheck(r, ip, username, email, password)
    \/ \E r \in 1..MaxRequests : RegisterCommit(r)

SpecRace == InitAuth /\ [][NextRace]_vars

\* ------------------------------------- the limiter, threads interleaved (SpecRLRace)
\* rate_limited holds no lock: a thread reads the key's history and decides
\* (auth.py:78-81), and another thread may run before it writes the history
\* back (auth.py:82-83).  A call that is limited returns at once.  alone tells
\* whether no other call of the same key was under way during the call.
RLRead(p, ip) ==
    LET r == rate_limited(ip, limit_dict, limit, seconds, now)
        others == {q \in 1..MaxThreads \ {p} :
                        threads[q].pc = "read" /\ threads[q].ip = ip}
        started == {q \in 1..MaxThreads : threads[q].pc = "read"}
    IN  /\ threads[p].pc = "idle"
        /\ Len(calls["10.0.0.1"]) + Len(calls["10.0.0.2"]) + Cardinality(started)
                < MaxRaceCalls
        /\ IF r.limited
           THEN /\ calls' = [calls EXCEPT ![ip] = Append(@, <<now, TRUE, others = {}>>)]
                /\ limited' = [ip |-> ip, at |-> now, limited |-> TRUE]
                /\ threads' = threads
           ELSE /\ threads' = [q \in 1..MaxThreads |->
                        IF q = p
                        THEN [pc |-> "read", ip |-> ip, at |-> now,
                              timestamps |-> r.limit_dict[ip], alone |-> others = {}]
                        ELSE IF q \in others
                        THEN [threads[q] EXCEPT !.alone = FALSE]
                        ELSE threads[q]]
                /\ UNCHANGED <<calls, limited>>
        /\ UNCHANGED <<now, limit_dict, limit, seconds, SEARCH_LIMIT, DETAIL_LIMIT,
                       authVars, dexVars, teamVars, resp>>

\* limit_dict[ip] = timestamps; return False
RLWrite(p) ==
    /\ threads[p].pc = "read"
    /\ limit_dict' = [limit_dict EXCEPT ![threads[p].ip] = threads[p].timestamps]
    /\ calls' = [calls EXCEPT ![threads[p].ip] =
                    Append(@, <<threads[p].at, FALSE, threads[p].alone>>)]
    /\ limited' = [ip |-> threads[p].ip, at |-> threads[p].at, limited |-> FALSE]
    /\ threads' = [threads EXCEPT ![p] = NoThread]
    /\ UNCHANGED <<now, limit, seconds, SEARCH_LIMIT, DETAIL_LIMIT, authVars,
                   dexVars, teamVars, resp>>

NextRLRace ==
    \/ Tick
    \/ \E p \in 1..MaxThreads, ip \in Keys : RLRead(p, ip)
    \/ \E p \in 1..MaxThreads : RLWrite(p)

SpecRLRace == InitRL /\ [][NextRLRace]_vars

\* --------------------------------------- app/routers/pokemon.py (SpecCatalog)
\* GET /api/v1/pokemon/{id_or_name}.  The body of the handler is inside
\* try ... except Exception, and HTTPException is an Exception: whatever
\* get_pokemon raises is raised again as a 500.
DetailReq(token, id_or_name, upstream) ==
    LET auth == get_current_user(token, users, now)
    IN  IF ~auth.ok THEN Rejected("detail", auth)
        ELSE
        LET rl == rate_limited(users[auth.user].username, DETAIL_LIMIT,
                               PokedexLimit, PokedexWindow, now)
            data == get_pokemon(id_or_name, upstream)
        IN  /\ DETAIL_LIMIT' = rl.limit_dict
            /\ resp' = IF rl.limited
                       THEN Response("detail", 429, TooMany, <<>>)
                       ELSE IF ~data.ok
                       THEN Response("detail", 500, "Error al obtener detalles", <<>>)
                       ELSE Response("detail", 200, "", <<id_or_name>>)
            /\ UNCHANGED <<now, limit_dict, limit, seconds, calls, limited, threads,
                           SEARCH_LIMIT, authVars, dexVars, teamVars>>

\* GET /api/v1/pokemon/search.  listing is what the catalog answers to the list
\* request, results the page it returns, upstreams what it answers to the
\* lookup of each result; a result is looked up when the name filter is empty
\* or is contained in its name (wanted).  The first lookup that fails ends
\* the loop, and the except clause answers 500, as it does when the list
\* request fails.
SearchReq(token, wanted, listing, results, upstreams) ==
    LET auth == get_current_user(token, users, now)
    IN  IF ~auth.ok THEN Rejected("search", auth)
        ELSE
        LET rl == rate_limited(users[auth.user].username, SEARCH_LIMIT,
                               PokedexLimit, PokedexWindow, now)
            looked_up == SelectSeq(results, LAMBDA id : id \in wanted)
            failed == \E n \in 1..Len(looked_up) :
                            ~get_pokemon(looked_up[n], upstreams[looked_up[n]]).ok
        IN  /\ SEARCH_LIMIT' = rl.limit_dict
            /\ resp' = IF rl.limited
                       THEN Response("search", 429, TooMany, <<>>)
                       ELSE IF listing.kind # "ok" \/ failed
                       THEN Response("search", 500, "Error al obtener Pokemon", <<>>)
                       ELSE IF looked_up = <<>>
                       THEN Response("search", 200,
                                     "No se encontraron Pokemon con ese nombre", <<>>)
                       ELSE Response("search", 200, "", looked_up)
            /\ UNCHANGED <<now, limit_dict, limit, seconds, calls, limited, threads,
                           DETAIL_LIMIT, authVars, dexVars, teamVars>>

NextCatalog ==
    LET tokens == {Token("ash", MaxTime, SECRET_KEY), Token("Ash", MaxTime, SECRET_KEY)}
    IN  \/ Tick
        \/ \E token \in tokens, entry_data \in EntryCreates,
              upstream \in UpstreamOutcomes : AddReq(token, entry_data, upstream)
        \/ \E token \in tokens, id \in PokemonIds, upstream \in UpstreamOutcomes :
                DetailReq(token, id, upstream)
        \/ \E token \in tokens, wanted \in {{25}, PokemonIds},
              listing \in {Upstream200, UpstreamTimeout},
              results \in {<<>>, <<1, 25>>}, upstream \in UpstreamOutcomes :
                SearchReq(token, wanted, listing, results,
                          [id \in PokemonIds |-> IF id = 25 THEN upstream
                                                 ELSE Upstream200])

SpecCatalog == InitDex /\ [][NextCatalog]_vars

\* ------------------------------- teams and the Pokedex together (SpecStore)
\* create_team when the database refuses a membership row.  The team row is
\* committed (teams.py:42-44) before the membership rows are added, and the
\* second commit (teams.py:46-48) is the one that raises: the exception leaves
\* the handler as a 500 and the team row stays, with no membership row.
CreateTeamFails(token, team_data) ==
    LET auth == get_current_user(token, users, now)
        id == NextId(teams)
    IN  /\ auth.ok
        /\ ~TooManyMembers(team_data.pokemon_ids)
        /\ Missing(team_data.pokemon_ids, UserPokemonIds(entries, auth.user)) = <<>>
        /\ team_data.pokemon_ids # <<>>
        /\ id <= MaxTeams
        /\ teams' = Insert(teams, id,
                [owner_id |-> auth.user, name |-> team_data.name,
                 description |-> team_data.description])
        /\ team_pokemon' = Insert(team_pokemon, id, <<>>)
        /\ resp' = Response("create_team", 500, "Internal Server Error", <<>>)
        /\ UNCHANGED <<now, rlVars, authVars, dexVars>>

\* update_team when the database refuses a membership row.  The assignments to
\* the team, the delete and the inserts belong to the one transaction that
\* db.commit() (teams.py:121) ends; when it raises, the session rolls the
\* transaction back.
UpdateTeamFails(token, team_id, team_update) ==
    LET auth == get_current_user(token, users, now)
    IN  /\ auth.ok
        /\ ~TeamNotFound(teams, team_id, auth.user)
        /\ team_update.pokemon_ids # NoIds
        /\ ~TooManyMembers(team_update.pokemon_ids)
        /\ Missing(team_update.pokemon_ids, UserPokemonIds(entries, auth.user)) = <<>>
        /\ team_update.pokemon_ids # <<>>
        /\ teams' = Discarded(teams, [teams EXCEPT ![team_id] =
                        IF Truthy(team_update.name)
                        THEN [@ EXCEPT !.name = team_update.name] ELSE @])
        /\ team_pokemon' = Discarded(team_pokemon,
                [team_pokemon EXCEPT ![team_id] = <<>>])
        /\ resp' = Response("update_team", 500, "Internal Server Error", <<>>)
        /\ UNCHANGED <<now, rlVars, authVars, dexVars>>

NextStore ==
    LET tokens == {Token("ash", MaxTime, SECRET_KEY)}
        creates == [name : {"Kanto"}, description : {NoneStr},
                    pokemon_ids : {<<25>>, <<25, 1>>, <<999>>}]
        updates == [name : {NoneStr, "Johto"}, description : {NoneStr},
                    pokemon_ids : {<<1>>, <<999>>}]
    IN  \/ Tick
        \/ \E token \in tokens, entry_data \in EntryCreates :
                AddReq(token, entry_data, Upstream200)
        \/ \E token \in tokens, id \in DOMAIN entries, update_data \in UpdateBodies :
                UpdateReq(token, id, update_data)
        \/ \E token \in tokens, id \in DOMAIN entries : DeleteReq(token, id)
        \/ \E token \in tokens, team_data \in creates : CreateTeamReq(token, team_data)
        \/ \E token \in tokens, team_data \in creates : CreateTeamFails(token, team_data)
        \/ \E token \in tokens, team_id \in DOMAIN teams, team_update \in updates :
                UpdateTeamReq(token, team_id, team_update)
        \/ \E token \in tokens, team_id \in DOMAIN teams, team_update \in updates :
                UpdateTeamFails(token, team_id, team_update)

SpecStore == InitTeams /\ [][NextStore]_vars

\* --------------------------------- GET /api/v1/pokedex/stats (SpecStats)
\* datetime.date(): the calendar day of a capture_date.
date(capture_date) == capture_date \div DayParts

\* pokedex.py:216-224, on the sorted list of dates: 0 for no date; otherwise
\* 1 plus the number of adjacent pairs, counted from the end of the list, that
\* differ by exactly one day, up to the first pair that does not.
capture_streak(captured_dates) ==
    IF captured_dates = <<>> THEN 0
    ELSE 1 + Cardinality({i \in 1..(Len(captured_dates) - 1) :
                \A j \in i..(Len(captured_dates) - 1) :
                    captured_dates[j + 1] - captured_dates[j] = 1})

\* upstreams is what the catalog answers to the lookup of each pokemon_id.
\* completion_percentage is in tenths of a percent, rounded as round(x, 1)
\* rounds; most_common_type is the first type, in the order of the rows, that
\* no other type outnumbers, as Counter.most_common(1) gives; captured_dates
\* is sorted(...) of the dates, equal dates kept.
StatsReq(token, upstreams) ==
    LET auth == get_current_user(token, users, now)
    IN  IF ~auth.ok THEN Rejected("stats", auth)
        ELSE
        LET rl == rate_limited(users[auth.user].username, POKEDEX_LIMIT,
                               PokedexLimit, PokedexWindow, now)
            ids == {i \in DOMAIN entries : entries[i].owner_id = auth.user}
            total_pokemon == Cardinality(ids)
            captured_entries == {i \in ids : entries[i].is_captured}
            captured == Cardinality(captured_entries)
            favorites == Cardinality({i \in ids : entries[i].favorite})
            scaled == captured * 1000
            completion_percentage ==
                IF \/ 2 * (scaled % total_pokemon) > total_pokemon
                   \/ /\ 2 * (scaled % total_pokemon) = total_pokemon
                      /\ (scaled \div total_pokemon) % 2 = 1
                THEN (scaled \div total_pokemon) + 1
                ELSE scaled \div total_pokemon
            type(i) == IF entries[i].pokemon_id = 1 THEN "grass" ELSE "electric"
            looked_up == {i \in ids : get_pokemon(entries[i].pokemon_id,
                                            upstreams[entries[i].pokemon_id]).ok}
            count(i) == Cardinality({k \in looked_up : type(k) = type(i)})
            most_common_type ==
                IF looked_up = {} THEN NoneStr
                ELSE type(CHOOSE i \in looked_up :
                        /\ \A k \in looked_up : count(k) <= count(i)
                        /\ \A k \in looked_up : k < i => count(k) < count(i))
            dated == {i \in captured_entries : entries[i].capture_date # NoDate}
            before(i) == {k \in dated :
                            \/ date(entries[k].capture_date) < date(entries[i].capture_date)
                            \/ /\ date(entries[k].capture_date)
                                    = date(entries[i].capture_date)
                               /\ k <= i}
            captured_dates ==
                [n \in 1..Cardinality(dated) |->
                    date(entries[CHOOSE i \in dated :
                                    Cardinality(before(i)) = n].capture_date)]
        IN  /\ POKEDEX_LIMIT' = rl.limit_dict
            /\ resp' = IF rl.limited
                       THEN Response("stats", 429, TooMany, <<>>)
                       ELSE IF ids = {}
                       THEN Response("stats", 200, "",
                                <<[total_pokemon |-> 0, captured |-> 0, favorites |-> 0,
                                   completion_percentage |-> 0,
                                   most_common_type |-> NoneStr,
                                   capture_streak_days |-> 0]>>)
                       ELSE Response("stats", 200, "",
                                <<[total_pokemon |-> total_pokemon,
                                   captured |-> captured, favorites |-> favorites,
                                   completion_percentage |-> completion_percentage,
                                   most_common_type |-> most_common_type,
                                   capture_streak_days |->
                                        capture_streak(captured_dates)]>>)
            /\ UNCHANGED <<now, rlVars, authVars, entries, teamVars>>

\* The entries of ash: captured ones with a capture_date on days 1, 2 and 10
\* and in the morning or the afternoon of day 3, and a favorite that has a
\* date and is not captured.
InitStats ==
    LET rows == {[Caught(1, 25) EXCEPT !.is_captured = TRUE, !.capture_date = ts] :
                    ts \in {DayParts, 2 * DayParts, 3 * DayParts, 3 * DayParts + 1,
                            10 * DayParts}}
                \cup {[Caught(1, 1) EXCEPT !.favorite = TRUE,
                                           !.capture_date = 2 * DayParts]}
    IN  /\ now = 0
        /\ RLIdle
        /\ users = SeedUsers
        /\ LimitersEmpty
        /\ \E n \in 0..MaxStatsEntries : entries \in [1..n -> rows]
        /\ POKEDEX_LIMIT = [u \in Usernames |-> <<>>]
        /\ TeamEmpty
        /\ resp = NoResp

NextStats ==
    \/ Tick
    \/ \E token \in {Token("ash", MaxTime, SECRET_KEY), Token("Ash", MaxTime, SECRET_KEY)},
          upstream \in {Upstream200, UpstreamTimeout} :
            StatsReq(token, [id \in PokemonIds |-> IF id = 25 THEN upstream
                                                   ELSE Upstream200])

SpecStats == InitStats /\ [][NextStats]_vars

\* ================================================================== claims

\* The number of a key's stored timestamps that lie inside the window now.
Recent(hist, secs) == Cardinality({n \in 1..Len(hist) : now - hist[n] < secs})

\* An Update or Delete request of an authenticated caller for entry id.
UpdateOrDelete(token, id) ==
    \/ \E d \in UpdateBodies : UpdateReq(token, id, d)
    \/ DeleteReq(token, id)

\* C1 as stated: an Update or Delete of an authenticated caller for an id that
\* no entry has is answered 404; for an entry whose owner is another user it is
\* answered 403; in both cases the Pokedex table is unchanged.
C1_AsStated ==
    [][resp'.op \in {"update", "delete"} =>
       \A token \in RequestTokens, id \in EntryIds :
        LET auth == get_current_user(token, users, now)
        IN  (/\ auth.ok
             /\ id \notin DOMAIN entries \/ entries[id].owner_id # auth.user
             /\ UpdateOrDelete(token, id))
            => /\ id \notin DOMAIN entries => resp'.status = 404
               /\ id \in DOMAIN entries => resp'.status = 403
               /\ entries' = entries
    ]_vars

\* C1 amended: an Update or Delete of an authenticated caller who is not
\* rate-limited, for an id that no entry has, is answered 404; for an entry
\* whose owner is another user it is answered 403; a rate-limited one is
\* answered 429 before the entry is looked up; in every one of these cases the
\* Pokedex table is unchanged.
C1_NotFoundOrForbidden ==
    [][resp'.op \in {"update", "delete"} =>
       \A token \in RequestTokens, id \in EntryIds :
        LET auth == get_current_user(token, users, now)
        IN  (/\ auth.ok
             /\ id \notin DOMAIN entries \/ entries[id].owner_id # auth.user
             /\ UpdateOrDelete(token, id))
            => LET lim == Recent(POKEDEX_LIMIT[users[auth.user].username],
                                 PokedexWindow) >= PokedexLimit
               IN  /\ lim => resp'.status = 429
                   /\ (~lim /\ id \notin DOMAIN entries) => resp'.status = 404
                   /\ (~lim /\ id \in DOMAIN entries) => resp'.status = 403
                   /\ entries' = entries
    ]_vars

\* A user was refused the deletion of an entry that another user owns, and the
\* entry is still there.
C1_Witness ==
    /\ resp.op = "delete"
    /\ resp.status = 403
    /\ \E id \in DOMAIN entries : entries[id].owner_id = 1
    /\ Len(POKEDEX_LIMIT["misty"]) > 0

\* C2: the entries in a successful List response all belong to the caller (the
\* user under whose name the request was counted), whatever the filters, the
\* sort column, the order, the limit and the offset.
C2_ListScoped ==
    [][(resp'.op = "list" /\ resp'.status = 200) =>
        \E u \in 1..Len(users) :
            /\ POKEDEX_LIMIT'[users[u].username] # POKEDEX_LIMIT[users[u].username]
            /\ \A i \in 1..Len(resp'.body) :
                /\ resp'.body[i].entry_id \in DOMAIN entries
                /\ entries[resp'.body[i].entry_id].owner_id = u
    ]_vars

\* A List response with an entry in it, from a table that also holds an entry
\* of another user with the same captured and favorite flags.
C2_Witness ==
    /\ resp.op = "list"
    /\ resp.status = 200
    /\ Len(resp.body) > 0
    /\ \E id \in DOMAIN entries :
        LET mine == entries[resp.body[1].entry_id]
        IN  /\ entries[id].owner_id # mine.owner_id
            /\ entries[id].is_captured = mine.is_captured
            /\ entries[id].favorite = mine.favorite

\* The pokemon ids among the Pokedex entries of user u.
Owned(u) == {entries[e].pokemon_id : e \in {x \in DOMAIN entries : entries[x].owner_id = u}}

BadToken(token) ==
    \/ token.key # SECRET_KEY
    \/ token.exp < now
    \/ token.sub = NoSub
    \/ \A i \in 1..Len(users) : users[i].username # token.sub

ProtectedReq(token) ==
    \/ \E entry_data \in EntryCreates, upstream \in {Upstream200, Upstream404} :
            AddReq(token, entry_data, upstream)
    \/ \E q \in ListQueries : ListReq(token, q, <<>>)
    \/ \E id \in EntryIds : UpdateOrDelete(token, id)

C7_Unauthorized ==
    [][\A token \in RequestTokens :
        (BadToken(token) /\ ProtectedReq(token)) =>
            /\ resp'.status = 401
            /\ UNCHANGED <<users, entries, teams, team_pokemon, POKEDEX_LIMIT>>
    ]_vars


\* C3: for a limiter with max_count = limit and window = seconds, counting a
\* key's calls from its empty history: each of the first `limit` calls made less
\* than `seconds` after the first call is not limited; call number limit + 1 is
\* limited when it is made less than `seconds` after the first call, and is not
\* limited when `seconds` or more have elapsed since the first call; and a call
\* made `seconds` or more after the call before it is not limited.
C3_WindowOfFirstCall ==
    \A k \in Keys :
        LET L == calls[k]
        IN  /\ \A i \in 1..Len(L) :
                    (i <= limit /\ L[i][1] - L[1][1] < seconds) => ~L[i][2]
            /\ (Len(L) > limit /\ L[limit + 1][1] - L[1][1] < seconds)
                    => L[limit + 1][2]
            /\ (Len(L) > limit /\ L[limit + 1][1] - L[1][1] >= seconds)
                    => ~L[limit + 1][2]
            /\ \A i \in 2..Len(L) :
                    (L[i][1] - L[i - 1][1] >= seconds) => ~L[i][2]

\* A key whose call number limit + 1 was limited inside the window and which a
\* later call, after the window, was admitted again.
C3_Witness ==
    \E k \in Keys :
        LET L == calls[k]
        IN  /\ Len(L) > limit + 1
            /\ L[limit + 1][1] - L[1][1] < seconds
            /\ L[limit + 1][2]
            /\ \E j \in (limit + 2)..Len(L) :
                    L[j][1] - L[1][1] >= seconds /\ ~L[j][2]

\* C4: a call of rate_limited for key ip at time now, with the key's stored
\* timestamps old: it is limited exactly when at least `limit` timestamps t of old
\* have now - t < seconds; a limited call changes no key's history; a call that
\* is not limited stores, under ip, the timestamps of old with now - t < seconds
\* in their order followed by now, and leaves every other key's history as it was.
KeptIndexes(old, t, secs) == {i \in 1..Len(old) : t - old[i] < secs}

NthKept(old, t, secs, n) ==
    CHOOSE i \in KeptIndexes(old, t, secs) :
        Cardinality({m \in KeptIndexes(old, t, secs) : m < i}) = n - 1

C4_CheckAndRecord ==
    [][(calls' # calls) =>
        LET ip == limited'.ip
            old == limit_dict[ip]
            new == limit_dict'[ip]
            kept == KeptIndexes(old, now, seconds)
        IN  /\ limited'.limited <=> (Cardinality(kept) >= limit)
            /\ limited'.limited => (limit_dict' = limit_dict)
            /\ ~limited'.limited =>
                /\ Len(new) = Cardinality(kept) + 1
                /\ new[Len(new)] = now
                /\ \A n \in 1..Cardinality(kept) :
                        new[n] = old[NthKept(old, now, seconds, n)]
                /\ \A k \in Keys \ {ip} : limit_dict'[k] = limit_dict[k]
    ]_vars

\* An admitted call dropped an expired timestamp and kept one (the stored
\* history is shorter than the number of admitted calls), while another key
\* holds a history.
C4_Witness ==
    /\ limited.ip \in Keys
    /\ ~limited.limited
    /\ Len(limit_dict[limited.ip]) <
            Cardinality({i \in 1..Len(calls[limited.ip]) : ~calls[limited.ip][i][2]})
    /\ Len(limit_dict[limited.ip]) > 1
    /\ \E k \in Keys \ {limited.ip} : Len(limit_dict[k]) > 0

\* C8 as stated: a Register request whose username equals the username of a
\* persisted user, or whose email equals the email of a persisted user, is
\* answered 400 and leaves the user table unchanged.
C8_AsStated ==
    [][\A ip \in IPs, u \in Usernames, e \in Emails, p \in Passwords :
        (/\ \E i \in 1..Len(users) : users[i].username = u \/ users[i].email = e
         /\ resp'.op = "register"
         /\ RegisterReq(ip, u, e, p))
        => (resp'.status = 400 /\ users' = users)
    ]_vars

\* C8 amended: a Register request that is not rate-limited and whose username
\* equals (exactly) the username of a persisted user, or whose email equals
\* (exactly) the email of a persisted user, is answered 400, whichever field
\* collided; a rate-limited one is answered 429; either way the user table is
\* unchanged.
C8_DuplicateRejected ==
    [][\A ip \in IPs, u \in Usernames, e \in Emails, p \in Passwords :
        (/\ \E i \in 1..Len(users) : users[i].username = u \/ users[i].email = e
         /\ resp'.op = "register"
         /\ RegisterReq(ip, u, e, p))
        => /\ resp'.status \in {400, 429}
           /\ (resp'.status = 429) <=>
                (Recent(REGISTER_LIMIT[ip], RegisterWindow) >= RegisterLimit)
           /\ users' = users
    ]_vars

\* A duplicate was rejected while the table had room for another row.
C8_Witness ==
    /\ resp.op = "register"
    /\ resp.status = 400
    /\ resp.detail = "El usuario o email ya existen."
    /\ Len(users) = 1

\* C9 as stated: Login answers 200 with an access token for the user exactly
\* when a row with the username exists and the password is the one its hash was
\* made of; every other login is answered with the one 401 response.
LoginGood(u, p) ==
    \E i \in 1..Len(users) :
        users[i].username = u /\ users[i].hashed_password = get_password_hash(p)

Generic401 == Response("login", 401, "Credenciales invalidas", <<>>)

C9_AsStated ==
    [][\A ip \in IPs, u \in Usernames, p \in Passwords :
        (resp'.op = "login" /\ LoginReq(ip, u, p)) =>
            /\ LoginGood(u, p) =>
                    /\ resp'.status = 200
                    /\ resp'.body[1].sub = u
                    /\ resp'.body[1].key = SECRET_KEY
            /\ ~LoginGood(u, p) => resp' = Generic401
    ]_vars

\* C9 amended: a Login request that is not rate-limited is answered 200 with an
\* access token for the user exactly when a row with the username exists and the
\* password is the one its hash was made of; a login with an unknown username and
\* a login with a known username and another password are answered with one and
\* the same response, 401 "Credenciales invalidas".  A rate-limited login is
\* answered 429 whatever the credentials.
C9_LoginGeneric ==
    [][\A ip \in IPs, u \in Usernames, p \in Passwords :
        (resp'.op = "login" /\ LoginReq(ip, u, p)) =>
          IF Recent(LOGIN_LIMIT[ip], LoginWindow) >= LoginLimit
          THEN resp'.status = 429
          ELSE
            /\ LoginGood(u, p) =>
                    /\ resp'.status = 200
                    /\ resp'.body[1].sub = u
                    /\ resp'.body[1].key = SECRET_KEY
            /\ ~LoginGood(u, p) => resp' = Generic401
    ]_vars

\* A login was refused with the generic response while a user exists (so both a
\* wrong password and an unknown username lead here).
C9_Witness ==
    /\ resp = Generic401
    /\ Len(users) = 1

\* C10: after a successful team update that provides pokemon_ids (at most 6,
\* each the pokemon_id of an entry of the caller's Pokedex), the membership rows
\* of the team are exactly the provided ids, one row for each and in their
\* order: none of the rows it had before is left; the membership of every other
\* team is as it was.  After a successful update that does not provide
\* pokemon_ids the membership table is unchanged.
C10_MembershipReplaced ==
    [][(resp'.op = "update_team" /\ resp'.status = 200) =>
       \A token \in UserTokens, team_id \in DOMAIN teams, team_update \in TeamUpdates :
        (/\ get_current_user(token, users, now).ok
         /\ UpdateTeamReq(token, team_id, team_update))
        => IF team_update.pokemon_ids = NoIds
           THEN team_pokemon' = team_pokemon
           ELSE /\ Len(team_update.pokemon_ids) <= 6
                /\ \A i \in 1..Len(team_update.pokemon_ids) :
                    team_update.pokemon_ids[i] \in
                        Owned(get_current_user(token, users, now).user)
                /\ DOMAIN team_pokemon' = DOMAIN team_pokemon
                /\ team_pokemon'[team_id] = team_update.pokemon_ids
                /\ \A t \in DOMAIN team_pokemon \ {team_id} :
                    team_pokemon'[t] = team_pokemon[t]
    ]_vars

\* An update was accepted that gave a team two members, while a second team
\* holds a membership of its own.
C10_Witness ==
    /\ resp.op = "update_team"
    /\ resp.status = 200
    /\ \E t \in DOMAIN teams :
        /\ team_pokemon[t] = resp.body[1].pokemon_ids
        /\ team_pokemon[t] = <<25, 1>>
        /\ \E o \in DOMAIN teams \ {t} : team_pokemon[o] = <<1>>

\* C11: a team update of an authenticated caller for a team id that no team
\* has, or for a team whose owner is another user, is answered 404, and the
\* team table (names and descriptions) and the membership table are unchanged.
C11_TeamNotFound ==
    [][resp'.op = "update_team" =>
       \/ /\ resp'.status = 404
          /\ teams' = teams
          /\ team_pokemon' = team_pokemon
       \/ \A token \in UserTokens :
            LET auth == get_current_user(token, users, now)
            IN  auth.ok =>
                \A team_id \in TeamIds :
                    (team_id \notin DOMAIN teams \/ teams[team_id].owner_id # auth.user)
                    => \A team_update \in TeamUpdates :
                        ~UpdateTeamReq(token, team_id, team_update)
    ]_vars

\* An update was answered 404 while both team rows exist, so the team it named
\* belongs to another user or to nobody.
C11_Witness ==
    /\ resp.op = "update_team"
    /\ resp.status = 404
    /\ DOMAIN teams = 1..MaxTeams
    /\ \E t \in DOMAIN teams : Len(team_pokemon[t]) > 0

\* C12 as stated: an update or a delete of a Pokedex entry, or an update of a
\* team, requested by an authenticated user who is not the owner of the row, is
\* answered 403 and leaves the row as it was.
C12_AsStated ==
    [][resp'.op \in {"update", "delete", "update_team"} =>
       \A token \in UserTokens :
        LET auth == get_current_user(token, users, now)
        IN  auth.ok =>
            /\ \A id \in DOMAIN entries :
                (entries[id].owner_id # auth.user /\ UpdateOrDelete(token, id))
                => (resp'.status = 403 /\ entries' = entries)
            /\ \A team_id \in DOMAIN teams :
                (/\ teams[team_id].owner_id # auth.user
                 /\ \E team_update \in OwnTeamUpdates :
                        UpdateTeamReq(token, team_id, team_update))
                => (resp'.status = 403 /\ teams' = teams
                    /\ team_pokemon' = team_pokemon)
    ]_vars

\* C12 amended: such a request never succeeds and leaves every row as it was.
\* For a Pokedex entry it is answered 403, or 429 when the caller is
\* rate-limited; for a team it is answered 404.
C12_NonOwnerRefused ==
    [][resp'.op \in {"update", "delete", "update_team"} =>
       \A token \in UserTokens :
        LET auth == get_current_user(token, users, now)
        IN  auth.ok =>
            /\ \A id \in DOMAIN entries :
                (entries[id].owner_id # auth.user /\ UpdateOrDelete(token, id))
                => /\ resp'.status =
                        IF Recent(POKEDEX_LIMIT[users[auth.user].username],
                                  PokedexWindow) >= PokedexLimit
                        THEN 429 ELSE 403
                   /\ entries' = entries
            /\ \A team_id \in DOMAIN teams :
                (/\ teams[team_id].owner_id # auth.user
                 /\ \E team_update \in OwnTeamUpdates :
                        UpdateTeamReq(token, team_id, team_update))
                => /\ resp'.status = 404
                   /\ teams' = teams
                   /\ team_pokemon' = team_pokemon
    ]_vars

\* A user was refused (403) the update of an entry of another user while a team
\* of another user is stored too.
C12_Witness ==
    /\ resp.op = "update"
    /\ resp.status = 403
    /\ \E id \in DOMAIN entries : entries[id].owner_id = 1
    /\ POKEDEX_LIMIT["misty"] # <<>>
    /\ \E t \in DOMAIN teams : teams[t].owner_id = 1

\* The ids of the entries a List of owner with query q may return, in the
\* Pokedex table tbl.
Listed(tbl, owner, q) ==
    UNION {{rows[i] : i \in 1..Len(rows)} : rows \in ListRows(tbl, owner, q)}

\* An id that no entry has gets an entry only by an Add answered 201 for the
\* entry of that id.
OnlyAddCreates ==
    \A id \in EntryIds :
        (id \notin DOMAIN entries /\ id \in DOMAIN entries')
        => (resp'.op = "add" /\ resp'.status = 201 /\ resp'.body = <<id>>)

\* A Delete answered 204 removes the entry of the id it names and no other
\* entry, no other entry changes, and no List of the owner returns the id
\* afterwards.
DeleteRemoves(token, id) ==
    (DeleteReq(token, id) /\ resp'.status = 204) =>
        /\ id \in DOMAIN entries
        /\ entries[id].owner_id = get_current_user(token, users, now).user
        /\ DOMAIN entries' = DOMAIN entries \ {id}
        /\ \A e \in DOMAIN entries' : entries'[e] = entries[e]
        /\ \A q \in ListQueries : id \notin Listed(entries', entries[id].owner_id, q)

\* C13 as stated: a successful Delete removes exactly the entry it names, which
\* no List of its owner returns afterwards; while no Add creates an entry with
\* that id again, every Delete of an authenticated caller for the id is
\* answered 404.
C13_AsStated ==
    [][/\ OnlyAddCreates
       /\ resp'.op = "delete" =>
           \A token \in RequestTokens, id \in EntryIds :
            /\ DeleteRemoves(token, id)
            /\ (/\ get_current_user(token, users, now).ok
                /\ id \notin DOMAIN entries
                /\ DeleteReq(token, id))
               => resp'.status = 404
    ]_vars

\* C13 amended: the same, except that a later Delete of a rate-limited caller
\* is answered 429 instead of 404; the Pokedex table is unchanged by either.
C13_DeletedStaysDeleted ==
    [][/\ OnlyAddCreates
       /\ resp'.op = "delete" =>
           \A token \in RequestTokens, id \in EntryIds :
            LET auth == get_current_user(token, users, now)
            IN  /\ DeleteRemoves(token, id)
                /\ (auth.ok /\ id \notin DOMAIN entries /\ DeleteReq(token, id))
                   => /\ resp'.status =
                            IF Recent(POKEDEX_LIMIT[users[auth.user].username],
                                      PokedexWindow) >= PokedexLimit
                            THEN 429 ELSE 404
                      /\ entries' = entries
    ]_vars

\* Entry 1 was deleted while entry 2 stayed, and a Delete was answered 404.
C13_Witness ==
    /\ resp.op = "delete"
    /\ resp.status = 404
    /\ DOMAIN entries = {2}

\* The columns of a Pokedex entry no request body can name.
FixedColumns == {"owner_id", "pokemon_id", "pokemon_name", "pokemon_sprite"}

\* Between this state and the next, entry id keeps its fixed columns and every
\* optional field outside the set may, and every other entry is as it was.
OnlyChanged(id, may) ==
    /\ DOMAIN entries' = DOMAIN entries
    /\ \A e \in DOMAIN entries \ {id} : entries'[e] = entries[e]
    /\ \A f \in FixedColumns \cup (UpdateFields \ may) :
        entries'[id][f] = entries[id][f]

\* C14 as stated: a successful Update changes, in the entry it names, only
\* fields among is_captured, capture_date, nickname and favorite that the
\* request provides; the fields not provided, the fixed columns and the id of
\* that entry, and every other entry, are as before.
C14_AsStated ==
    [][(resp'.op = "update" /\ resp'.status = 200) =>
       \A token \in UserTokens, id \in EntryIds, update_data \in PartialBodies :
        \/ id \in DOMAIN entries /\ OnlyChanged(id, update_data.set \ {"notes"})
        \/ ~UpdateReq(token, id, update_data)
    ]_vars

\* C14 amended: the same with notes among the fields a request may provide.
C14_OnlyProvidedFields ==
    [][(resp'.op = "update" /\ resp'.status = 200) =>
       \A token \in UserTokens, id \in EntryIds, update_data \in PartialBodies :
        \/ id \in DOMAIN entries /\ OnlyChanged(id, update_data.set)
        \/ ~UpdateReq(token, id, update_data)
    ]_vars

\* An Update that provided the nickname alone succeeded on the first entry: the
\* nickname is new, the other fields are the stored ones.
C14_Witness ==
    /\ resp.op = "update"
    /\ resp.status = 200
    /\ entries[1] = [UpdateSeed[1] EXCEPT !.nickname = "Bolt"]
    /\ entries[2] = UpdateSeed[2]

\* C15: an Add of an authenticated caller that reaches the catalog lookup
\* (the caller is not rate-limited) and whose lookup fails with a status and a
\* detail is answered with that status and that detail and stores nothing; one
\* whose lookup succeeds stores exactly one new entry, owned by the caller, with
\* the name and the sprite the catalog returned, and changes no other entry.
C15_AddFollowsCatalog ==
    [][resp'.op = "add" =>
       \A token \in RequestTokens :
        LET auth == get_current_user(token, users, now)
        IN  (/\ auth.ok
             /\ Recent(POKEDEX_LIMIT[users[auth.user].username], PokedexWindow)
                    < PokedexLimit)
            => \A entry_data \in EntryCreates, upstream \in AddOutcomes :
                LET pokemon_data == get_pokemon(entry_data.pokemon_id, upstream)
                    new == DOMAIN entries' \ DOMAIN entries
                IN  AddReq(token, entry_data, upstream) =>
                    IF ~pokemon_data.ok
                    THEN /\ resp'.status = pokemon_data.status
                         /\ resp'.detail = pokemon_data.detail
                         /\ entries' = entries
                    ELSE /\ resp'.status = 201
                         /\ Cardinality(new) = 1
                         /\ \A e \in DOMAIN entries :
                                e \in DOMAIN entries' /\ entries'[e] = entries[e]
                         /\ \A e \in new :
                             /\ entries'[e].owner_id = auth.user
                             /\ entries'[e].pokemon_id = entry_data.pokemon_id
                             /\ entries'[e].pokemon_name = pokemon_data.name
                             /\ entries'[e].pokemon_sprite = pokemon_data.sprite
    ]_vars

\* An Add was answered with the catalog's timeout failure after an earlier Add
\* had stored an entry; the table holds that entry alone.
C15_Witness ==
    /\ resp.op = "add"
    /\ resp.status = 504
    /\ resp.detail = "Tiempo de espera agotado"
    /\ DOMAIN entries = {1}
    /\ entries[1].pokemon_name = CatalogName(25)

\* C16: a Refresh with a token that carries a valid signature, is not expired
\* and whose subject names a stored user is answered 200 with a new access
\* token for that user; a Refresh with any other token is answered 401.
C16_RefreshIssuesToken ==
    [][resp'.op = "refresh" =>
       \A token \in Presented :
        RefreshReq(token) =>
            LET user == get_user_by_username(users, token.sub)
            IN  IF jwt_decode_ok(token, now) /\ user # 0
                THEN /\ resp'.status = 200
                     /\ resp'.body =
                            <<create_access_token([sub |-> token.sub,
                                                   user_id |-> user], AccessTTL, now)>>
                ELSE resp'.status = 401
    ]_vars

\* The access token create_access_token makes from the claims of token, with the
\* same lifetime, at the same second.
AccessTwin(token) ==
    create_access_token([sub |-> token.sub, user_id |-> token.user_id],
                        token.exp - token.iat, token.iat)

\* C17: on the routes behind Authenticate, a request that carries a token made
\* by create_refresh_token is answered as the same request with the access
\* token made from the same data at the same second with the same lifetime;
\* before its expiry a refresh token of a stored user passes Authenticate: the
\* handler runs and answers 200, or 429 when the user is rate-limited.
C17_RefreshTokenAccepted ==
    [][resp'.op \in {"list", "me"} =>
       \A data \in RefreshData, ttl \in TokenTTLs, t \in 0..now :
        LET token == create_refresh_token(data, ttl, t)
            live == now < token.exp /\ get_user_by_username(users, data.sub) # 0
        IN  /\ ListReq(token, DefaultQuery, <<>>) =>
                /\ ListReq(AccessTwin(token), DefaultQuery, <<>>)
                /\ live => resp'.status \in {200, 429}
            /\ MeReq(token) =>
                /\ MeReq(AccessTwin(token))
                /\ live => resp'.status = 200
    ]_vars

\* A List was answered 200 and counted for misty, whose tokens are all made by
\* create_refresh_token.
C17_Witness ==
    /\ resp.op = "list"
    /\ resp.status = 200
    /\ POKEDEX_LIMIT["misty"] = <<now>>
    /\ \A token \in AccessTokens : token.sub # "misty"

\* C18: a request that carries a token issued with a lifetime of 0, or a token
\* presented after its expiry, is answered 401, on the routes behind
\* Authenticate and on Refresh.
C18_ExpiredRejected ==
    [][resp'.op \in {"list", "me", "refresh"} =>
       \A token \in Presented :
        (/\ token.exp = token.iat \/ token.exp < now
         /\ \/ ListReq(token, DefaultQuery, <<>>)
            \/ MeReq(token)
            \/ RefreshReq(token))
        => resp'.status = 401
    ]_vars

\* local@domain.tld: a local part, "@", a domain, ".", a top-level label, and
\* nothing after it.
LocalAtDomainTld(email) == EmailShape(email)

\* At least 8 characters, an uppercase letter and a digit.
StrongPassword(password) ==
    /\ Len(password) >= 8
    /\ \E i \in 1..Len(password) : password[i] \in Upper
    /\ \E i \in 1..Len(password) : password[i] \in Digit

\* C19: a Register request that is not rate-limited and whose email has not the
\* shape local@domain.tld, or whose password has fewer than 8 characters, no
\* uppercase letter or no digit, is answered 400 and stores no user; one that
\* passes both checks with a username and an email no stored user has stores
\* exactly one new user, with a bcrypt hash that the password verifies against
\* in the place of the password, and returns the id of the new row.
C19_RegisterValidates ==
    [][resp'.op = "register" =>
       \A ip \in IPs :
        Recent(REGISTER_LIMIT[ip], RegisterWindow) < RegisterLimit =>
        \A u \in Usernames, e \in Emails \cup {EmailNewline}, p \in Passwords :
            RegisterReq(ip, u, e, p) =>
                IF ~LocalAtDomainTld(e) \/ ~StrongPassword(p)
                THEN resp'.status = 400 /\ users' = users
                ELSE (\A i \in 1..Len(users) :
                            users[i].username # u /\ users[i].email # e)
                     => /\ Len(users') = Len(users) + 1
                        /\ SubSeq(users', 1, Len(users)) = users
                        /\ users'[Len(users')].username = u
                        /\ users'[Len(users')].email = e
                        /\ users'[Len(users')].hashed_password.scheme = "bcrypt"
                        /\ verify_password(p, users'[Len(users')].hashed_password)
                        /\ resp'.status = 200
                        /\ resp'.body = <<Len(users')>>
    ]_vars

\* C20: of two Register requests with the same username or the same email that
\* both pass the existence check before either commits, one stores its user;
\* the commit of the other, which meets the stored row, is answered 400 and
\* stores nothing.
C20_LoserGets400 ==
    [][\A r \in 1..MaxRequests :
        (/\ RegisterCommit(r)
         /\ UserExists(users, sessions[r].username, sessions[r].email))
        => (resp'.status = 400 /\ users' = users)
    ]_vars

\* The part of C20 that holds: whatever the order of the two commits, no two
\* stored users share a username or an email.
C20_OneRowPerName ==
    \A i, j \in 1..Len(users) :
        i # j => (users[i].username # users[j].username
                  /\ users[i].email # users[j].email)

\* C29: in every state the team routes reach, whether their requests were
\* accepted or rejected, every stored team has at most 6 membership rows.
C29_AtMostSixMembers ==
    \A t \in DOMAIN team_pokemon : Len(team_pokemon[t]) <= 6

\* A team holds 6 membership rows and a request with more than 6 member ids has
\* just been rejected.
C29_Witness ==
    /\ \E t \in DOMAIN team_pokemon : Len(team_pokemon[t]) = 6
    /\ resp.status = 400
    /\ resp.detail \in {"Team cannot have more than 6 Pokemon",
                        "Un equipo no puede tener mas de 6 Pokemon."}

\* C30: an update by the owner of a team with more than 6 member ids, or with a
\* member id that is not in the owner's Pokedex, is answered 400 and leaves the
\* team's name, description and membership rows as they were, also when the
\* request carries a new name or description.
C30_RejectedUpdateKeepsTeam ==
    [][resp'.op = "update_team" =>
       \/ /\ resp'.status = 400
          /\ teams' = teams
          /\ team_pokemon' = team_pokemon
       \/ \A token \in UserTokens :
            LET auth == get_current_user(token, users, now)
            IN  auth.ok =>
                \A team_id \in DOMAIN teams :
                    teams[team_id].owner_id = auth.user =>
                    \A team_update \in TeamUpdates :
                        (/\ team_update.pokemon_ids # NoIds
                         /\ \/ Len(team_update.pokemon_ids) > 6
                            \/ \E i \in 1..Len(team_update.pokemon_ids) :
                                team_update.pokemon_ids[i] \notin Owned(auth.user))
                        => ~UpdateTeamReq(token, team_id, team_update)
    ]_vars

\* An update that named a Pokemon outside the owner's Pokedex was rejected, and
\* the one stored team has its name and its member.
C30_Witness ==
    /\ resp.op = "update_team"
    /\ resp.status = 400
    /\ resp.body = <<999>>
    /\ DOMAIN teams = {1}
    /\ teams[1].name = "Kanto"
    /\ team_pokemon[1] = <<25>>

\* The calls of key k that were answered not-limited at a time in from..to.
Admitted(k, from, to) ==
    {i \in 1..Len(calls[k]) :
        ~calls[k][i][2] /\ from <= calls[k][i][1] /\ calls[k][i][1] <= to}

\* C28: with calls made one after the other, at times that do not decrease and
\* with one max_count and one window, a key's stored history never holds more
\* than max_count timestamps, and in every time interval shorter than the
\* window at most max_count calls of the key were answered not-limited.
C28_AtMostLimitPerWindow ==
    \A k \in Keys :
        /\ Len(limit_dict[k]) <= limit
        /\ \A from \in 0..MaxTime :
            Cardinality(Admitted(k, from, from + seconds - 1)) <= limit

\* A key was admitted more often than max_count over the whole run, was limited
\* at least once, and its history is full.
C28_Witness ==
    \E k \in Keys :
        /\ Cardinality(Admitted(k, 0, MaxTime)) > limit
        /\ \E i \in 1..Len(calls[k]) : calls[k][i][2]
        /\ Len(limit_dict[k]) = limit
        /\ limit > 1

\* C27: rate_limited holds no lock between reading a key's history and
\* writing it back.  A key whose calls never ran while another call of the
\* same key was under way admits at most max_count calls in any window, no
\* matter how calls of other keys interleave with them; more than max_count
\* admissions of one key in one window therefore need two calls of that key
\* that interleaved.
C27_OverAdmissionNeedsSameKeyOverlap ==
    \A k \in Keys :
        (\A i \in 1..Len(calls[k]) : calls[k][i][3])
            => \A from \in 0..MaxTime :
                    Cardinality(Admitted(k, from, from + seconds - 1)) <= limit

\* Two calls of one key interleaved: both were admitted at the same second
\* with max_count = 1, and the history holds one timestamp.
C27_Witness ==
    \E k \in Keys :
        /\ limit = 1
        /\ \E i, j \in 1..Len(calls[k]) :
                /\ i < j
                /\ ~calls[k][i][2] /\ ~calls[k][j][2]
                /\ calls[k][i][1] = calls[k][j][1]
                /\ ~calls[k][i][3] /\ ~calls[k][j][3]
        /\ Len(limit_dict[k]) = 1
        /\ \A p \in 1..MaxThreads : threads[p].pc = "idle"

\* C25: when the catalog lookup of a request fails with a status and a detail,
\* the handler that made the lookup (Pokedex Add, Pokemon detail, Pokemon
\* search), called by an authenticated caller who is not rate-limited, answers
\* with that status and that detail.
Admits(hist) ==
    \A token \in UserTokens :
        LET auth == get_current_user(token, users, now)
        IN  auth.ok => Recent(hist[users[auth.user].username], PokedexWindow)
                            < PokedexLimit

C25_CatalogFailurePassedThrough ==
    [][/\ (resp'.op = "add" /\ Admits(POKEDEX_LIMIT)) =>
            \A token \in UserTokens, entry_data \in EntryCreates,
               upstream \in UpstreamOutcomes :
                LET data == get_pokemon(entry_data.pokemon_id, upstream)
                IN  (/\ get_current_user(token, users, now).ok
                     /\ ~data.ok
                     /\ AddReq(token, entry_data, upstream))
                    => resp'.status = data.status /\ resp'.detail = data.detail
       /\ (resp'.op = "detail" /\ Admits(DETAIL_LIMIT)) =>
            \A token \in UserTokens, id \in PokemonIds, upstream \in UpstreamOutcomes :
                LET data == get_pokemon(id, upstream)
                IN  (/\ get_current_user(token, users, now).ok
                     /\ ~data.ok
                     /\ DetailReq(token, id, upstream))
                    => resp'.status = data.status /\ resp'.detail = data.detail
       /\ (resp'.op = "search" /\ Admits(SEARCH_LIMIT)) =>
            \A token \in UserTokens, upstream \in UpstreamOutcomes :
                LET data == get_pokemon(25, upstream)
                IN  (/\ get_current_user(token, users, now).ok
                     /\ ~data.ok
                     /\ SearchReq(token, {25}, Upstream200, <<1, 25>>,
                                  [id \in PokemonIds |-> IF id = 25 THEN upstream
                                                         ELSE Upstream200]))
                    => resp'.status = data.status /\ resp'.detail = data.detail
    ]_vars

\* C26: get_pokemon maps the outcome of its one upstream request: a body is
\* returned; an upstream 404 raises 404 'Pokemon no encontrado'; another
\* upstream HTTP error status s raises status s; a timeout raises 504 'Tiempo
\* de espera agotado'; any other failure raises 500.  Seen through the Add
\* handler, which raises what get_pokemon raised.
C26_OutcomeMapping ==
    [][(resp'.op = "add" /\ Admits(POKEDEX_LIMIT)) =>
        \A token \in UserTokens, entry_data \in EntryCreates,
           upstream \in UpstreamOutcomes :
            (/\ get_current_user(token, users, now).ok
             /\ AddReq(token, entry_data, upstream))
            => /\ upstream.kind = "ok" => resp'.status = 201
               /\ (upstream.kind = "http" /\ upstream.status = 404)
                    => /\ resp'.status = 404
                       /\ resp'.detail = "Pokemon no encontrado"
               /\ (upstream.kind = "http" /\ upstream.status # 404)
                    => resp'.status = upstream.status
               /\ upstream.kind = "timeout"
                    => /\ resp'.status = 504
                       /\ resp'.detail = "Tiempo de espera agotado"
               /\ upstream.kind = "other" => resp'.status = 500
    ]_vars

\* C21: in every reachable state, every member pokemon_id of every team is the
\* pokemon_id of at least one Pokedex entry owned by the team's owner.
C21_MembersInOwnersPokedex ==
    \A t \in DOMAIN teams :
        \A n \in 1..Len(team_pokemon[t]) :
            team_pokemon[t][n] \in UserPokemonIds(entries, teams[t].owner_id)

\* C22: a create_team or update_team whose membership insert fails leaves no
\* part of its work behind: no new team row after a create; the same team row
\* and the same membership rows after an update.
C22_AllOrNothing ==
    [][resp'.status = 500 =>
        /\ resp'.op = "create_team" => DOMAIN teams' = DOMAIN teams
        /\ resp'.op = "update_team" => teams' = teams /\ team_pokemon' = team_pokemon
    ]_vars

\* C23: capture_streak_days of a Stats answer is the number of consecutive
\* calendar days that end at the caller's most recent capture date, counted
\* over the distinct dates of the caller's captured entries, and 0 when there
\* is no such date; several captures on one date change nothing.
CaptureDays(owner) ==
    {date(entries[i].capture_date) :
        i \in {j \in DOMAIN entries : /\ entries[j].owner_id = owner
                                      /\ entries[j].is_captured
                                      /\ entries[j].capture_date # NoDate}}

StreakOfDays(days) ==
    Cardinality({d \in days :
        \A e \in d..(d + 10 * DayParts) :
            (\E last \in days : e <= last) => e \in days})

StatsAnswered(token) ==
    /\ get_current_user(token, users, now).ok
    /\ \E upstream \in {Upstream200, UpstreamTimeout} :
            StatsReq(token, [id \in PokemonIds |-> IF id = 25 THEN upstream
                                                   ELSE Upstream200])
    /\ resp'.status = 200

C23_StreakOverDistinctDates ==
    [][\A token \in UserTokens :
        StatsAnswered(token) =>
            resp'.body[1].capture_streak_days
                = StreakOfDays(CaptureDays(get_current_user(token, users, now).user))
    ]_vars

\* C24: for a caller whose captured entries have their capture dates on days
\* 1, 2, 3 and 10, one entry a day, Stats answers capture_streak_days = 3.
C24_ThreeDayStreak ==
    [][\A token \in UserTokens :
        LET owner == get_current_user(token, users, now).user
        IN  (/\ StatsAnswered(token)
             /\ CaptureDays(owner) = {1, 2, 3, 10}
             /\ Cardinality({i \in DOMAIN entries : entries[i].owner_id = owner}) = 4)
            => resp'.body[1].capture_streak_days = 3
    ]_vars

====
